---- MODULE Spec2Model ----
(***************************************************************************)
(* Model of app/services/chatgpt.py (ChatGPTService): the response         *)
(* classifier, the FlareSolverr clearance cache, the shared HTTP session,  *)
(* the retrying request executor _make_request, the operations built on    *)
(* it and the refresh flows; and of the route of app/routes/admin.py that  *)
(* updates the FlareSolverr configuration.                                 *)
(*                                                                         *)
(* Conventions.  An Optional value is a sequence of length 0 (None) or 1.  *)
(* A text is a sequence of tokens; every token stands for a fixed run of   *)
(* characters whose width is given by Width.  A dict of cookies is a       *)
(* function from names to values.                                          *)
(***************************************************************************)
EXTENDS Integers, Sequences, FiniteSets, TLC

VARIABLES
  session,          \* self.session            (Optional session)
  cf_cookies,       \* self._cf_cookies        (Optional dict)
  cf_user_agent,    \* self._cf_user_agent     (Optional string)
  cf_cookies_time,  \* self._cf_cookies_time
  now,              \* time.time()
  ticks,            \* number of clock steps taken (bounds the clock)
  pc,               \* position of the logical call: idle, loop, done, raised
  op,               \* operation that issued the logical call
  method,           \* argument method of _make_request
  db_session,       \* argument db_session of _make_request is not None
  headers,          \* argument headers of _make_request (a dict)
  attempt,          \* loop variable attempt of _make_request
  cf_retried,       \* local cf_retried of _make_request
  result,           \* value returned by _make_request
  log,              \* observations of the current logical call
  gm,               \* frame of get_members
  ret,              \* value returned by the last upstream operation
  ev,               \* the last call of a method of the session state
  settings,         \* FlareSolverr configuration stored by settings_service
  price,            \* last call of calculate_price_cents: arguments and result
  conc              \* tasks that share the service, and the sessions created

vars == <<session, cf_cookies, cf_user_agent, cf_cookies_time, now, ticks,
          pc, op, method, db_session, headers, attempt, cf_retried, result,
          log, gm, ret, ev, settings, price, conc>>

svcVars == <<session, cf_cookies, cf_user_agent, cf_cookies_time>>
callVars == <<pc, op, method, db_session, headers, attempt, cf_retried, result,
              log>>

-----------------------------------------------------------------------------
(* Program constants *)

MAX_RETRIES == 3
RETRY_DELAYS == <<1, 2, 4>>
CF_COOKIE_TTL == 1800
MSG_TRIM == 2000
HTML_WINDOW == 200
PAGE_LIMIT == 50
DEFAULT_BASE_DAYS == 30
DEFAULT_BASE_PRICE_CENTS == 1500

(* Bounds of the model *)

MaxTicks == 3
StartTime == 2000
MaxPages == 4
MaxExpiries == 1
MaxDays == 40
MaxSessions == 4
MaxUpdates == 1

-----------------------------------------------------------------------------
(* Optional values *)

None == <<>>
Some(x) == <<x>>
IsNone(o) == Len(o) = 0
Get(o) == o[1]

Min(a, b) == IF a <= b THEN a ELSE b

-----------------------------------------------------------------------------
(* Texts *)

WS == " "
CfMarkers == {"cdn-cgi/challenge-platform", "_cf_chl_opt", "cf-chl",
              "enable javascript and cookies to continue"}

Width(tok) ==
  CASE tok = WS -> 1
    [] tok = "x" -> 1
    [] tok = "<html" -> 5
    [] tok = "<HTML" -> 5
    [] tok = "<!doctype html" -> 14
    [] tok = "cdn-cgi/challenge-platform" -> 26
    [] tok = "_cf_chl_opt" -> 11
    [] tok = "cf-chl" -> 6
    [] tok = "CF-CHL" -> 6
    [] tok = "enable javascript and cookies to continue" -> 41
    [] tok = "pad200" -> 200
    [] tok = "pad2000" -> 2000
    [] OTHER -> 10

RECURSIVE TextLen(_)
TextLen(t) == IF Len(t) = 0 THEN 0 ELSE Width(Head(t)) + TextLen(Tail(t))

\* str.lower() on one token
LowerTok(tok) ==
  CASE tok = "<HTML" -> "<html"
    [] tok = "CF-CHL" -> "cf-chl"
    [] OTHER -> tok

Lower(t) == [i \in DOMAIN t |-> LowerTok(t[i])]

RECURSIVE LStrip(_)
LStrip(t) == IF Len(t) > 0 /\ Head(t) = WS THEN LStrip(Tail(t)) ELSE t

RECURSIVE RStrip(_)
RStrip(t) ==
  IF Len(t) > 0 /\ t[Len(t)] = WS THEN RStrip(SubSeq(t, 1, Len(t) - 1)) ELSE t

Strip(t) == RStrip(LStrip(t))

StartsWith(t, tok) == Len(t) > 0 /\ t[1] = tok

\* tok in t[:n]
InPrefix(tok, t, n) ==
  \E i \in DOMAIN t : t[i] = tok /\ TextLen(SubSeq(t, 1, i)) <= n

Contains(tok, t) == \E i \in DOMAIN t : t[i] = tok

\* t[:n], for a cut that falls on a token boundary
RECURSIVE Take(_, _)
Take(t, n) ==
  IF Len(t) = 0 \/ Width(Head(t)) > n THEN <<>>
  ELSE <<Head(t)>> \o Take(Tail(t), n - Width(Head(t)))

-----------------------------------------------------------------------------
(* Values handed to _simplify_error_text: a str, None, or a decoded JSON   *)
(* list / object / number (the "detail" field of an error payload).        *)

StrV(t) == [t |-> "str", s |-> t, n |-> 0]
NoneV == [t |-> "none", s |-> <<>>, n |-> 0]
ListV(k) == [t |-> "list", s |-> <<>>, n |-> k]
ObjV(k) == [t |-> "dict", s |-> <<>>, n |-> k]
IntV(k) == [t |-> "int", s |-> <<>>, n |-> k]

\* Python truthiness: not v
Falsy(v) ==
  CASE v.t = "none" -> TRUE
    [] v.t = "str" -> Len(v.s) = 0
    [] OTHER -> v.n = 0

MSG_REQUEST_FAILED == <<"MSG:request failed">>
MSG_CF_BLOCKED == <<"MSG:blocked by Cloudflare, configure FlareSolverr">>
MSG_HTML_RESPONSE == <<"MSG:service returned an HTML page">>
TRUNCATED_MARK == <<"...(truncated)">>

NoCode == "None"

_looks_like_html(text) ==
  IF Len(text) = 0 THEN FALSE
  ELSE LET stripped == Lower(LStrip(text))
       IN  \/ StartsWith(stripped, "<!doctype html")
           \/ StartsWith(stripped, "<html")
           \/ InPrefix("<html", stripped, HTML_WINDOW)

_is_cloudflare_challenge(text) ==
  IF Len(text) = 0 THEN FALSE
  ELSE \E m \in CfMarkers : Contains(m, Lower(text))

Simplified(msg, code) == [raised |-> FALSE, message |-> msg, code |-> code]
SimplifyRaised == [raised |-> TRUE, message |-> <<>>, code |-> NoCode]

\* text.lstrip() on a value that is not a str raises AttributeError
_simplify_error_text(v) ==
  IF Falsy(v) THEN Simplified(MSG_REQUEST_FAILED, NoCode)
  ELSE IF v.t # "str" THEN SimplifyRaised
  ELSE IF _looks_like_html(v.s) /\ _is_cloudflare_challenge(v.s)
       THEN Simplified(MSG_CF_BLOCKED, "cloudflare_challenge")
  ELSE IF _looks_like_html(v.s)
       THEN Simplified(MSG_HTML_RESPONSE, "html_response")
  ELSE LET trimmed == Strip(v.s)
       IN  Simplified(IF TextLen(trimmed) > MSG_TRIM
                      THEN Take(trimmed, MSG_TRIM) \o TRUNCATED_MARK
                      ELSE trimmed,
                      NoCode)

-----------------------------------------------------------------------------
(* Environment of the clearance cache: what reading the FlareSolverr       *)
(* configuration gives, and what the solver answers.                       *)

Cfg(raises, enabled, url) == [raises |-> raises, enabled |-> enabled, url |-> url]

\* outcomes of: await settings_service.get_flaresolverr_config(db_session)
ConfigReads ==
  { Cfg(TRUE, FALSE, ""),
    Cfg(FALSE, TRUE, "http://solver:8191"),
    Cfg(FALSE, TRUE, ""),
    Cfg(FALSE, FALSE, "http://solver:8191") }

Cookie(name, value) == [name |-> name, value |-> value]

SolverResp(kind, http, status, cookies, ua) ==
  [kind |-> kind, http |-> http, status |-> status, cookies |-> cookies,
   userAgent |-> ua]

\* outcomes of: await fs_session.post(flaresolverr_url, ...)
SolverResponses ==
  { SolverResp("exception", 0, "", <<>>, ""),
    SolverResp("response", 500, "", <<>>, ""),
    SolverResp("response", 200, "error", <<>>, ""),
    SolverResp("response", 200, "ok",
               <<Cookie(Some("cf_clearance"), Some("A"))>>, "UA-A"),
    SolverResp("response", 200, "ok",
               <<Cookie(Some("cf_clearance"), Some("B")),
                 Cookie(Some("__cf_bm"), Some("B"))>>, ""),
    SolverResp("response", 200, "ok", <<>>, "UA-A"),
    SolverResp("response", 200, "ok",
               <<Cookie(None, Some("A"))>>, "UA-A") }

\* {c["name"]: c["value"] for c in cookies_list}; a later entry wins
CookieDict(cookies_list) ==
  LET names == {Get(cookies_list[i].name) : i \in DOMAIN cookies_list}
      last(nm) == CHOOSE i \in DOMAIN cookies_list :
                    /\ Get(cookies_list[i].name) = nm
                    /\ \A j \in DOMAIN cookies_list :
                         Get(cookies_list[j].name) = nm => j <= i
  IN  [nm \in names |-> Get(cookies_list[last(nm)].value)]

\* c["name"] or c["value"] raises KeyError
CookieKeyError(cookies_list) ==
  \E i \in DOMAIN cookies_list :
    IsNone(cookies_list[i].name) \/ IsNone(cookies_list[i].value)

EmptyDict == [nm \in {} |-> ""]

\* bool(d) for a dict
NonEmpty(d) == DOMAIN d # {}

\* d[k] = v for a dict
DictSet(d, k, v) == [nm \in DOMAIN d \cup {k} |-> IF nm = k THEN v ELSE d[nm]]

\* headers that the callers of _make_request pass: the operations of the
\* service pass no User-Agent, another caller may
DefaultHeaders == [nm \in {"Authorization"} |-> "Bearer"]
AgentHeaders == DictSet(DefaultHeaders, "User-Agent", "UA-caller")
CallerHeaders == {DefaultHeaders, AgentHeaders}

\* no call of calculate_price_cents yet
NoQuote ==
  [remaining_days |-> None, base_days |-> 0, base_price_cents |-> 0,
   cents |-> None, called |-> FALSE]

\* the tasks that share the service: the logical calls of Callers and the
\* request of update_flaresolverr_config.  A frame holds the task's position
\* at an await of the code and its locals.
Callers == {1, 2}

IdleTask ==
  [pc |-> "idle", cont |-> "entry", attempt |-> 0, cf_retried |-> FALSE,
   cfg |-> 0, closing |-> 0, on |-> 0, cookie |-> None, agent |-> None,
   after |-> 0]

\* made, open: the sessions created so far (1 .. made) and those not closed;
\* gen: the stored solver configuration (its number of saves); returned: the
\* configuration of the last update that returned success; absent: an
\* attempt found self.session None
NoTasks ==
  [task |-> [i \in Callers |-> IdleTask],
   admin |-> [pc |-> "idle", closing |-> 0],
   made |-> 0, open |-> {}, gen |-> 0, returned |-> 0, updates |-> 0,
   absent |-> FALSE]

\* the stored configuration before any update: disabled, no URL
NoSettings == [enabled |-> FALSE, url |-> <<>>]

-----------------------------------------------------------------------------
(* Service state as a record, for the methods that update it *)

Svc(s, c, u, t) ==
  [session |-> s, cf_cookies |-> c, cf_user_agent |-> u, cf_cookies_time |-> t]

Self == Svc(session, cf_cookies, cf_user_agent, cf_cookies_time)

\* the headers of one attempt written into the caller's dict instead of a
\* copy of it
request_headers_InPlace(S, hdrs) ==
  LET request_headers ==
        IF ~IsNone(S.cf_user_agent) /\ Get(S.cf_user_agent) # ""
        THEN DictSet(hdrs, "User-Agent", Get(S.cf_user_agent)) ELSE hdrs
  IN  [headers |-> request_headers, request_headers |-> request_headers]

\* _make_request, lines 235-238: "request_headers = dict(headers); if
\* self._cf_user_agent: request_headers['User-Agent'] = self._cf_user_agent";
\* the caller's dict after it, and the headers of the attempt
request_headers(S, hdrs) ==
  LET copy == hdrs
  IN  [headers |-> hdrs,
       request_headers |->
         IF ~IsNone(S.cf_user_agent) /\ Get(S.cf_user_agent) # ""
         THEN DictSet(copy, "User-Agent", Get(S.cf_user_agent)) ELSE copy]

\* result of a method: the state it leaves, what it returns, whether it
\* raised, and the solver requests it issued
Ret(S, ok, raised, reqs) == [S |-> S, ok |-> ok, raised |-> raised, reqs |-> reqs]

\* _fetch_cf_cookies storing the cookies read before the entry that lacks a
\* name or a value
_fetch_cf_cookies_PartialUpdate(S, config, sol, t) ==
  IF config.raises THEN Ret(S, FALSE, TRUE, 0)
  ELSE IF ~config.enabled \/ config.url = "" THEN Ret(S, FALSE, FALSE, 0)
  ELSE IF sol.kind = "exception" THEN Ret(S, FALSE, FALSE, 1)
  ELSE IF sol.http # 200 THEN Ret(S, FALSE, FALSE, 1)
  ELSE IF sol.status # "ok" THEN Ret(S, FALSE, FALSE, 1)
  ELSE IF CookieKeyError(sol.cookies)
  THEN Ret([S EXCEPT !.cf_cookies = Some(EmptyDict)], FALSE, FALSE, 1)
  ELSE Ret([S EXCEPT !.cf_cookies = Some(CookieDict(sol.cookies)),
                     !.cf_user_agent = IF sol.userAgent = "" THEN None
                                       ELSE Some(sol.userAgent),
                     !.cf_cookies_time = t],
           TRUE, FALSE, 1)

\* _fetch_cf_cookies asking the solver although it is disabled
_fetch_cf_cookies_IgnoresEnabled(S, config, sol, t) ==
  IF config.raises THEN Ret(S, FALSE, TRUE, 0)
  ELSE IF config.url = "" THEN Ret(S, FALSE, FALSE, 0)
  ELSE IF sol.kind = "exception" THEN Ret(S, FALSE, FALSE, 1)
  ELSE IF sol.http # 200 THEN Ret(S, FALSE, FALSE, 1)
  ELSE IF sol.status # "ok" THEN Ret(S, FALSE, FALSE, 1)
  ELSE IF CookieKeyError(sol.cookies) THEN Ret(S, FALSE, FALSE, 1)
  ELSE Ret([S EXCEPT !.cf_cookies = Some(CookieDict(sol.cookies)),
                     !.cf_user_agent = IF sol.userAgent = "" THEN None
                                       ELSE Some(sol.userAgent),
                     !.cf_cookies_time = t],
           TRUE, FALSE, 1)

_fetch_cf_cookies(S, config, sol, t) ==
  IF config.raises THEN Ret(S, FALSE, TRUE, 0)
  ELSE IF ~config.enabled \/ config.url = "" THEN Ret(S, FALSE, FALSE, 0)
  ELSE IF sol.kind = "exception" THEN Ret(S, FALSE, FALSE, 1)
  ELSE IF sol.http # 200 THEN Ret(S, FALSE, FALSE, 1)
  ELSE IF sol.status # "ok" THEN Ret(S, FALSE, FALSE, 1)
  ELSE IF CookieKeyError(sol.cookies) THEN Ret(S, FALSE, FALSE, 1)
  ELSE Ret([S EXCEPT !.cf_cookies = Some(CookieDict(sol.cookies)),
                     !.cf_user_agent = IF sol.userAgent = "" THEN None
                                       ELSE Some(sol.userAgent),
                     !.cf_cookies_time = t],
           TRUE, FALSE, 1)

\* variant: a cache exactly CF_COOKIE_TTL old still counts as valid
_cf_cookies_valid_Inclusive(S, t) ==
  /\ ~IsNone(S.cf_cookies)
  /\ NonEmpty(Get(S.cf_cookies))
  /\ (t - S.cf_cookies_time) <= CF_COOKIE_TTL

_cf_cookies_valid(S, t) ==
  /\ ~IsNone(S.cf_cookies)
  /\ NonEmpty(Get(S.cf_cookies))
  /\ (t - S.cf_cookies_time) < CF_COOKIE_TTL

\* _ensure_cf_cookies fetching whatever the age of the cache
_ensure_cf_cookies_AlwaysFetch(S, config, sol, t) ==
  _fetch_cf_cookies(S, config, sol, t)

_ensure_cf_cookies(S, config, sol, t) ==
  IF ~_cf_cookies_valid(S, t) THEN _fetch_cf_cookies(S, config, sol, t)
  ELSE Ret(S, FALSE, FALSE, 0)

\* a session built without the cached cookies
NewSession_NoCookies(S) == [cookies |-> EmptyDict]

\* the session object built by _create_session
NewSession(S) ==
  [cookies |-> IF ~IsNone(S.cf_cookies) /\ NonEmpty(Get(S.cf_cookies))
               THEN Get(S.cf_cookies) ELSE EmptyDict]

\* returns the new session in field session of the result (S is the state
\* left by _ensure_cf_cookies; the caller stores the session)
_create_session(S, config, sol, t) ==
  LET e == _ensure_cf_cookies(S, config, sol, t)
  IN  [S |-> e.S, raised |-> e.raised, reqs |-> e.reqs,
       session |-> NewSession(e.S)]

\* _try_cf_recovery keeping a stored session instead of rebuilding it
_try_cf_recovery_KeepsSession(S, config1, sol1, config2, sol2, t) ==
  LET cleared == [S EXCEPT !.cf_cookies = None, !.cf_user_agent = None,
                           !.cf_cookies_time = 0]
      f == _fetch_cf_cookies(cleared, config1, sol1, t)
      c == _create_session(f.S, config2, sol2, t)
  IN  IF f.raised THEN Ret(f.S, FALSE, TRUE, f.reqs)
      ELSE IF ~f.ok THEN Ret(f.S, FALSE, FALSE, f.reqs)
      ELSE IF ~IsNone(f.S.session) THEN Ret(f.S, TRUE, FALSE, f.reqs)
      ELSE IF c.raised THEN Ret(c.S, FALSE, TRUE, f.reqs + c.reqs)
      ELSE Ret([c.S EXCEPT !.session = Some(c.session)], TRUE, FALSE,
               f.reqs + c.reqs)

_try_cf_recovery(S, config1, sol1, config2, sol2, t) ==
  LET cleared == [S EXCEPT !.cf_cookies = None, !.cf_user_agent = None,
                           !.cf_cookies_time = 0]
      f == _fetch_cf_cookies(cleared, config1, sol1, t)
      closed == [f.S EXCEPT !.session = None]
      c == _create_session(closed, config2, sol2, t)
  IN  IF f.raised THEN Ret(f.S, FALSE, TRUE, f.reqs)
      ELSE IF ~f.ok THEN Ret(f.S, FALSE, FALSE, f.reqs)
      ELSE IF c.raised THEN Ret(c.S, FALSE, TRUE, f.reqs + c.reqs)
      ELSE Ret([c.S EXCEPT !.session = Some(c.session)], TRUE, FALSE,
               f.reqs + c.reqs)

\* close(), lines 868-873: "if self.session: await self.session.close();
\* self.session = None".  release_raises: the awaited close of the session
\* raises, and the assignment is not reached.
close(S, release_raises) ==
  IF IsNone(S.session) THEN Ret(S, FALSE, FALSE, 0)
  ELSE IF release_raises THEN Ret(S, FALSE, TRUE, 0)
  ELSE Ret([S EXCEPT !.session = None], FALSE, FALSE, 0)

\* clear_session leaving the capture time as it is
clear_session_KeepsTimestamp(S, release_raises) ==
  close([S EXCEPT !.cf_cookies = None, !.cf_user_agent = None], release_raises)

\* clear_session(), lines 875-880
clear_session(S, release_raises) ==
  close([S EXCEPT !.cf_cookies = None, !.cf_user_agent = None,
                  !.cf_cookies_time = 0],
        release_raises)

-----------------------------------------------------------------------------
(* Upstream responses *)

\* value of response.json(): t = "fail" when decoding raises
Json(t, detail, error, code, items, total) ==
  [t |-> t, detail |-> detail, error |-> error, code |-> code,
   items |-> items, total |-> total]

JsonFail == Json("fail", None, None, NoCode, None, None)
JsonObj(detail, error, code) == Json("dict", detail, error, code, None, None)
JsonPage(items, total) == Json("dict", None, None, NoCode, items, total)
JsonList == Json("list", None, None, NoCode, None, None)
JsonStr == Json("str", None, None, NoCode, None, None)

\* the "error" member of an error payload: a dict with an optional code,
\* or something that is not a dict
ErrInfo(isdict, code) == [isdict |-> isdict, code |-> code]

Body(text, json) == [text |-> text, json |-> json]

ChallengePage == <<WS, "<!doctype html", "cdn-cgi/challenge-platform">>

PlainBodies ==
  { Body(<<>>, JsonFail),
    Body(<<"x">>, JsonFail),
    Body(ChallengePage, JsonFail),
    Body(<<"<HTML", "CF-CHL">>, JsonFail),
    Body(<<"<html", "x">>, JsonFail),
    Body(<<"x", "cf-chl">>, JsonFail),
    Body(<<"pad200", "<html", "_cf_chl_opt">>, JsonFail),
    Body(<<WS, "pad2000", "x", WS>>, JsonFail) }

JsonBodies ==
  { Body(<<"{}">>, JsonObj(None, None, NoCode)),
    Body(<<"{detail:str}">>, JsonObj(Some(StrV(<<"x">>)), None, "E_TOP")),
    Body(<<"{detail:list}">>, JsonObj(Some(ListV(1)), None, NoCode)),
    Body(<<"{detail:object}">>, JsonObj(Some(ObjV(1)), None, NoCode)),
    Body(<<"{detail:null}">>, JsonObj(Some(NoneV), Some(ErrInfo(FALSE, NoCode)), "E_TOP")),
    Body(<<"{detail:page}">>,
         JsonObj(Some(StrV(ChallengePage)), Some(ErrInfo(TRUE, "E_NESTED")), "E_TOP")),
    Body(<<"{", "<html", "cf-chl", "}">>, JsonObj(Some(StrV(<<"x">>)), None, NoCode)),
    Body(<<"[]">>, JsonList),
    Body(<<"\"", "<html", "cf-chl", "\"">>, JsonStr) }

Bodies == PlainBodies \cup JsonBodies

Resp(status, ctype, body) ==
  [kind |-> "response", status_code |-> status, content_type |-> ctype,
   body |-> body]

\* asyncio.TimeoutError, and any other exception raised by the send
TimeoutOutcome == [kind |-> "timeout", status_code |-> 0, content_type |-> "",
                   body |-> Body(<<>>, JsonFail)]
TransportOutcome == [kind |-> "error", status_code |-> 0, content_type |-> "",
                     body |-> Body(<<>>, JsonFail)]

RawStatuses == {200, 302, 403, 503}

RawOutcomes ==
  {Resp(st, "text/html", b) : st \in RawStatuses, b \in Bodies}
    \cup {Resp(200, "application/json", b) : b \in Bodies}
    \cup {TimeoutOutcome, TransportOutcome}

-----------------------------------------------------------------------------
(* Result envelopes *)

Err(fmt, text, status, n) == [fmt |-> fmt, text |-> text, status |-> status, n |-> n]

\* an error message that is a classifier message or raw text
TextErr(message) == Err("text", message, 0, 0)
\* "server error {status_code}, retried {MAX_RETRIES} times"
ServerRetriedErr(status, n) == Err("server_error_retried", <<>>, status, n)
\* "request timed out, retried {MAX_RETRIES} times"
TimeoutRetriedErr(n) == Err("timeout_retried", <<>>, 0, n)
\* "request exception: {str(e)}"
ExceptionErr(e) == Err("request_exception", <<e>>, 0, 0)
\* "unknown error"
UnknownErr == Err("unknown_error", <<>>, 0, 0)

Envelope(success, status, data, error, code) ==
  [success |-> success, status_code |-> status, data |-> data,
   error |-> error, error_code |-> code]

NoResult == Envelope(FALSE, 0, None, None, "no result")

-----------------------------------------------------------------------------
(* One iteration of the retry loop of _make_request *)

\* what one iteration does: return an envelope or go on to the next value
\* of attempt; the state it leaves; the delay it slept; the new cf_retried;
\* how _try_cf_recovery ended if it was called; solver requests issued;
\* whether a request was sent upstream
Outcome(kind, S, env, sleep, retried, recovery, reqs, dispatched) ==
  [kind |-> kind, S |-> S, env |-> env, sleep |-> sleep, retried |-> retried,
   recovery |-> recovery, reqs |-> reqs, dispatched |-> dispatched]

\* except Exception as e: (lines 407-423)
ExceptionPath(S, att, retried, e, recovery, reqs, dispatched) ==
  IF att < MAX_RETRIES - 1
  THEN Outcome("continue", S, NoResult, Some(RETRY_DELAYS[att + 1]), retried,
               recovery, reqs, dispatched)
  ELSE Outcome("return", S, Envelope(FALSE, 0, None, Some(ExceptionErr(e)), NoCode),
               None, retried, recovery, reqs, dispatched)

\* TimeoutPath with the count of the message taken from the loop variable
TimeoutPath_CountsAttempt(S, att, retried) ==
  IF att < MAX_RETRIES - 1
  THEN Outcome("continue", S, NoResult, Some(RETRY_DELAYS[att + 1]), retried,
               "none", 0, TRUE)
  ELSE Outcome("return", S,
               Envelope(FALSE, 0, None, Some(TimeoutRetriedErr(att)), NoCode),
               None, retried, "none", 0, TRUE)

\* except asyncio.TimeoutError: (lines 389-405)
TimeoutPath(S, att, retried) ==
  IF att < MAX_RETRIES - 1
  THEN Outcome("continue", S, NoResult, Some(RETRY_DELAYS[att + 1]), retried,
               "none", 0, TRUE)
  ELSE Outcome("return", S,
               Envelope(FALSE, 0, None, Some(TimeoutRetriedErr(MAX_RETRIES)), NoCode),
               None, retried, "none", 0, TRUE)

\* ServerErrorPath sleeping the first delay whatever the attempt
ServerErrorPath_FixedDelay(S, att, retried, status) ==
  IF att < MAX_RETRIES - 1
  THEN Outcome("continue", S, NoResult, Some(RETRY_DELAYS[1]), retried,
               "none", 0, TRUE)
  ELSE Outcome("return", S,
               Envelope(FALSE, status, None,
                        Some(ServerRetriedErr(status, MAX_RETRIES)), NoCode),
               None, retried, "none", 0, TRUE)

\* a plain 5xx (lines 372-387)
ServerErrorPath(S, att, retried, status) ==
  IF att < MAX_RETRIES - 1
  THEN Outcome("continue", S, NoResult, Some(RETRY_DELAYS[att + 1]), retried,
               "none", 0, TRUE)
  ELSE Outcome("return", S,
               Envelope(FALSE, status, None,
                        Some(ServerRetriedErr(status, MAX_RETRIES)), NoCode),
               None, retried, "none", 0, TRUE)

\* ChallengePath whose replay after a successful recovery stays at the same
\* value of attempt: the iteration neither returns nor moves on
ChallengePath_ReplaysSameAttempt(S, att, retried, db, rec, env) ==
  IF ~retried /\ db
  THEN IF rec.raised
       THEN ExceptionPath(rec.S, att, retried, "recovery failed", "raised",
                          rec.reqs, TRUE)
       ELSE IF rec.ok
       THEN Outcome("replay", rec.S, NoResult, None, TRUE, "ok", rec.reqs, TRUE)
       ELSE Outcome("return", rec.S, env, None, retried, "failed", rec.reqs, TRUE)
  ELSE Outcome("return", S, env, None, retried, "none", 0, TRUE)

\* "if ... not cf_retried and db_session: recovery_ok = await
\* self._try_cf_recovery(db_session); if recovery_ok: cf_retried = True;
\* continue", followed by the return of env
ChallengePath(S, att, retried, db, rec, env) ==
  IF ~retried /\ db
  THEN IF rec.raised
       THEN ExceptionPath(rec.S, att, retried, "recovery failed", "raised",
                          rec.reqs, TRUE)
       ELSE IF rec.ok
       THEN Outcome("continue", rec.S, NoResult, None, TRUE, "ok", rec.reqs, TRUE)
       ELSE Outcome("return", rec.S, env, None, retried, "failed", rec.reqs, TRUE)
  ELSE Outcome("return", S, env, None, retried, "none", 0, TRUE)

\* SuccessBranch that trusts the content type: a body is decoded only when
\* the response says application/json
SuccessBranch_TrustsContentType(S, att, retried, db, r, rec) ==
  IF r.body.json.t # "fail" /\ r.content_type = "application/json"
  THEN Outcome("return", S,
               Envelope(TRUE, r.status_code, Some(r.body.json), None, NoCode),
               None, retried, "none", 0, TRUE)
  ELSE Outcome("return", S,
               Envelope(FALSE, r.status_code, None,
                        Some(TextErr(_simplify_error_text(StrV(r.body.text)).message)),
                        "invalid_response"),
               None, retried, "none", 0, TRUE)

\* lines 253-305
SuccessBranch(S, att, retried, db, r, rec) ==
  IF r.body.json.t # "fail"
  THEN Outcome("return", S,
               Envelope(TRUE, r.status_code, Some(r.body.json), None, NoCode),
               None, retried, "none", 0, TRUE)
  ELSE LET simplified == _simplify_error_text(StrV(r.body.text))
           env == Envelope(FALSE, r.status_code, None,
                           Some(TextErr(simplified.message)),
                           IF simplified.code # NoCode THEN simplified.code
                           ELSE "invalid_response")
       IN  IF simplified.code = "cloudflare_challenge"
           THEN ChallengePath(S, att, retried, db, rec, env)
           ELSE Outcome("return", S, env, None, retried, "none", 0, TRUE)

\* lines 309-323: error_msg and error_code read from the error payload
ClientErrorPayload(body) ==
  IF body.json.t # "dict"
  THEN [error_msg |-> StrV(body.text), error_code |-> NoCode]
  ELSE [error_msg |-> IF IsNone(body.json.detail) THEN StrV(body.text)
                      ELSE Get(body.json.detail),
        error_code |-> IF ~IsNone(body.json.error) /\ Get(body.json.error).isdict
                       THEN Get(body.json.error).code
                       ELSE body.json.code]

\* lines 307-344
ClientErrorBranch(S, att, retried, db, r, rec) ==
  LET payload == ClientErrorPayload(r.body)
      simplified == _simplify_error_text(payload.error_msg)
      error_code == IF payload.error_code # NoCode THEN payload.error_code
                    ELSE simplified.code
      env == Envelope(FALSE, r.status_code, None,
                      Some(TextErr(simplified.message)), error_code)
  IN  IF simplified.raised
      THEN ExceptionPath(S, att, retried, "AttributeError", "none", 0, TRUE)
      ELSE IF simplified.code = "cloudflare_challenge"
      THEN ChallengePath(S, att, retried, db, rec, env)
      ELSE Outcome("return", S, env, None, retried, "none", 0, TRUE)

\* ServerErrorBranch without the look at the body: every 5xx is retried
ServerErrorBranch_NoChallengeCheck(S, att, retried, db, r, rec) ==
  ServerErrorPath(S, att, retried, r.status_code)

\* lines 346-387
ServerErrorBranch(S, att, retried, db, r, rec) ==
  IF _looks_like_html(r.body.text) /\ _is_cloudflare_challenge(r.body.text)
  THEN LET simplified == _simplify_error_text(StrV(r.body.text))
       IN  ChallengePath(S, att, retried, db, rec,
                         Envelope(FALSE, r.status_code, None,
                                  Some(TextErr(simplified.message)),
                                  IF simplified.code # NoCode THEN simplified.code
                                  ELSE "cloudflare_challenge"))
  ELSE ServerErrorPath(S, att, retried, r.status_code)

SupportedMethods == {"GET", "POST", "DELETE"}

\* the body of "for attempt in range(self.MAX_RETRIES)" for the outcome r of
\* the send; rec is what _try_cf_recovery does if it is called
Iteration(S, att, retried, db, meth, r, rec) ==
  IF meth \notin SupportedMethods
  THEN ExceptionPath(S, att, retried, "ValueError", "none", 0, FALSE)
  ELSE IF IsNone(S.session)
  THEN ExceptionPath(S, att, retried, "AttributeError", "none", 0, FALSE)
  ELSE IF r.kind = "timeout" THEN TimeoutPath(S, att, retried)
  ELSE IF r.kind = "error"
  THEN ExceptionPath(S, att, retried, "transport error", "none", 0, TRUE)
  ELSE IF 200 <= r.status_code /\ r.status_code < 300
  THEN SuccessBranch(S, att, retried, db, r, rec)
  ELSE IF 400 <= r.status_code /\ r.status_code < 500
  THEN ClientErrorBranch(S, att, retried, db, r, rec)
  ELSE IF r.status_code >= 500
  THEN ServerErrorBranch(S, att, retried, db, r, rec)
  ELSE Outcome("continue", S, NoResult, None, retried, "none", 0, TRUE)

-----------------------------------------------------------------------------
(* Observations of one logical call (kept for the properties; the program  *)
(* does not read them)                                                     *)

NoConfig == Cfg(FALSE, FALSE, "")
NoSolver == SolverResp("none", 0, "", <<>>, "")

Usable(config) == ~config.raises /\ config.enabled /\ config.url # ""

IsChallengeBody(body) ==
  _looks_like_html(body.text) /\ _is_cloudflare_challenge(body.text)

\* a failure the loop retries with backoff: a 5xx that is no challenge page,
\* a timeout, a transport error
PlainRetryable(r) ==
  \/ r.kind \in {"timeout", "error"}
  \/ r.kind = "response" /\ r.status_code >= 500 /\ ~IsChallengeBody(r.body)

\* what is kept of the outcome of the last send: its kind and status, whether
\* the raw body matches the challenge heuristic, whether the body decodes as
\* JSON, the shape of the "detail" member of a decoded object, and whether
\* the classifier tags the message of the error payload as a challenge
Seen(r) ==
  [kind |-> r.kind, status_code |-> r.status_code,
   content_type |-> r.content_type,
   challenge_body |-> IsChallengeBody(r.body),
   json |-> r.body.json.t,
   detail |-> IF IsNone(r.body.json.detail) THEN "absent"
              ELSE Get(r.body.json.detail).t,
   tagged |-> LET simplified ==
                    _simplify_error_text(ClientErrorPayload(r.body).error_msg)
              IN  ~simplified.raised /\ simplified.code = "cloudflare_challenge"]

NotSent ==
  [kind |-> "none", status_code |-> 0, content_type |-> "",
   challenge_body |-> FALSE, json |-> "fail", detail |-> "absent",
   tagged |-> FALSE]

EmptyLog ==
  [dispatches |-> 0, recoveries |-> 0, solver_reqs |-> 0, sleeps |-> <<>>,
   iterations |-> 0, only_retryable |-> TRUE, last |-> NotSent,
   last_recovery |-> "none", last_attempt |-> 0,
   sent |-> None,
   entry |-> [had_session |-> FALSE, cached |-> FALSE, age |-> 0,
              usable |-> FALSE, reqs |-> 0]]

-----------------------------------------------------------------------------
(* Actions *)

\* value returned by an upstream operation: state is "none" before any
\* operation, "pending" while it runs, "returned" or "raised" when it ended;
\* the members of the returned dict that the operation does not set are None
NoRet ==
  [op |-> "none", state |-> "none", success |-> FALSE, status_code |-> None,
   payload |-> None, error |-> None, error_code |-> NoCode]

\* what is kept of the last call of a method of the session state: the
\* method, what it returned, whether it raised, the solver requests it
\* issued, whether the cache was valid and a session stored when it was
\* called, whether it left cache and session as they were, and the method
\* called before it
NoEvent ==
  [op |-> "none", ok |-> FALSE, raised |-> FALSE, reqs |-> 0,
   valid_before |-> FALSE, had_session |-> FALSE, cache_kept |-> TRUE,
   session_kept |-> TRUE, solver |-> "none", release_raised |-> FALSE,
   saved |-> "none", http |-> 0, stored_kept |-> TRUE, prev_op |-> "none"]

GmResult(success, members, total, error, code) ==
  [success |-> success, members |-> members, total |-> total,
   error |-> error, error_code |-> code]

\* frame of get_members: its locals, the size of the member list the server
\* holds, the offsets requested so far, whether every page consumed so far
\* was the server's true page, whether a page without progress was consumed
GmIdle ==
  [pc |-> "idle", all_members |-> <<>>, offset |-> 0, server |-> 0,
   requests |-> <<>>, consistent |-> TRUE, stalled |-> FALSE,
   result |-> GmResult(FALSE, <<>>, 0, None, NoCode)]

Init ==
  /\ session = None
  /\ cf_cookies = None
  /\ cf_user_agent = None
  /\ cf_cookies_time = 0
  /\ now = StartTime
  /\ ticks = 0
  /\ pc = "idle"
  /\ op = "none"
  /\ method = "GET"
  /\ db_session = TRUE
  /\ headers = DefaultHeaders
  /\ attempt = 0
  /\ cf_retried = FALSE
  /\ result = NoResult
  /\ log = EmptyLog
  /\ gm = GmIdle
  /\ ret = NoRet
  /\ ev = NoEvent
  /\ settings = NoSettings
  /\ price = NoQuote
  /\ conc = NoTasks

TickSteps == {1, CF_COOKIE_TTL - 1}

\* time passes between logical calls
Tick ==
  /\ pc # "loop"
  /\ ticks < MaxTicks
  /\ \E d \in TickSteps : now' = now + d
  /\ ticks' = ticks + 1
  /\ UNCHANGED <<svcVars, callVars, settings, price, conc, gm, ret, ev>>

SetSvc(S) ==
  /\ session' = S.session
  /\ cf_cookies' = S.cf_cookies
  /\ cf_user_agent' = S.cf_user_agent
  /\ cf_cookies_time' = S.cf_cookies_time

\* _make_request, lines 224-228: "if not self.session: self.session = await
\* self._create_session(db_session)".  config is the FlareSolverr
\* configuration at the time of the call, sol the answer of the solver if it
\* is asked.
Entry(o, m, h, db, Configs, Solvers) ==
  \E config \in Configs :
  \E sol \in IF IsNone(session) /\ ~_cf_cookies_valid(Self, now) /\ Usable(config)
             THEN Solvers ELSE {NoSolver} :
  \E c \in {_create_session(Self, config, sol, now)} :
  \E created \in {IsNone(session)} :
  \E entry \in {[had_session |-> ~created,
                 cached |-> ~IsNone(cf_cookies) /\ NonEmpty(Get(cf_cookies)),
                 age |-> now - cf_cookies_time,
                 usable |-> Usable(config),
                 reqs |-> IF created THEN c.reqs ELSE 0]} :
    /\ op' = o
    /\ method' = m
    /\ headers' = h
    /\ db_session' = db
    /\ attempt' = 0
    /\ cf_retried' = FALSE
    /\ result' = NoResult
    /\ log' = [EmptyLog EXCEPT !.entry = entry, !.solver_reqs = entry.reqs]
    /\ IF created /\ c.raised
       THEN pc' = "raised" /\ SetSvc(c.S)
       ELSE /\ pc' = "loop"
            /\ IF created
               THEN SetSvc([c.S EXCEPT !.session = Some(c.session)])
               ELSE UNCHANGED svcVars

\* the envelope of lines 425-431
FallThrough == Envelope(FALSE, 0, None, Some(UnknownErr), NoCode)

\* one iteration of the retry loop for an outcome of R, with the sleep that
\* ends it, and the return after the loop when the iteration was the last
Iterate(R, Configs, Solvers) ==
  /\ pc = "loop"
  /\ \E r \in R :
     \E probe \in {Iteration(Self, attempt, cf_retried, db_session, method, r,
                             Ret(Self, FALSE, FALSE, 0))} :
     \E config1 \in IF probe.recovery # "none" THEN Configs ELSE {NoConfig} :
     \E sol1 \in IF probe.recovery # "none" /\ Usable(config1) THEN Solvers
                 ELSE {NoSolver} :
     \E f \in {_fetch_cf_cookies(Svc(session, None, None, 0), config1, sol1, now)} :
     \E again \in {probe.recovery # "none" /\ f.ok /\ ~_cf_cookies_valid(f.S, now)} :
     \E config2 \in IF again THEN Configs ELSE {NoConfig} :
     \E sol2 \in IF again /\ Usable(config2) THEN Solvers ELSE {NoSolver} :
     \E it \in {IF probe.recovery = "none" THEN probe
                ELSE Iteration(Self, attempt, cf_retried, db_session, method, r,
                               _try_cf_recovery(Self, config1, sol1, config2,
                                                sol2, now))} :
     \E exhausted \in {it.kind = "continue" /\ attempt + 1 >= MAX_RETRIES} :
     \E rh \in {request_headers(Self, headers)} :
       /\ SetSvc(it.S)
       /\ headers' = rh.headers
       /\ cf_retried' = it.retried
       /\ pc' = IF it.kind = "return" \/ exhausted THEN "done" ELSE "loop"
       /\ attempt' = IF it.kind = "continue" /\ ~exhausted
                     THEN attempt + 1 ELSE attempt
       /\ result' = IF it.kind = "return" THEN it.env
                    ELSE IF exhausted THEN FallThrough ELSE result
       /\ log' = [log EXCEPT
            !.dispatches = @ + IF it.dispatched THEN 1 ELSE 0,
            !.recoveries = @ + IF it.recovery # "none" THEN 1 ELSE 0,
            !.solver_reqs = @ + it.reqs,
            !.sleeps = IF IsNone(it.sleep) THEN @ ELSE Append(@, Get(it.sleep)),
            !.iterations = @ + 1,
            !.only_retryable = @ /\ it.dispatched /\ PlainRetryable(r),
            !.last = IF it.dispatched THEN Seen(r) ELSE NotSent,
            !.last_recovery = it.recovery,
            !.last_attempt = attempt,
            !.sent = IF it.dispatched THEN Some(rh.request_headers) ELSE None]
  /\ UNCHANGED <<op, method, db_session, now, ticks, price, conc, settings, gm, ret, ev>>

-----------------------------------------------------------------------------
(* Specification of the executor: logical calls one after another, every   *)
(* upstream outcome, the solver answering with a solution or an error      *)

Methods == {"GET", "PATCH"}

ExecConfigs ==
  { Cfg(TRUE, FALSE, ""),
    Cfg(FALSE, TRUE, "http://solver:8191"),
    Cfg(FALSE, FALSE, "http://solver:8191") }

ExecSolvers ==
  { SolverResp("response", 200, "error", <<>>, ""),
    SolverResp("response", 200, "ok",
               <<Cookie(Some("cf_clearance"), Some("A"))>>, "UA-A") }

\* a caller starts _make_request
Call ==
  /\ pc \in {"idle", "done", "raised"}
  /\ \E m \in Methods, h \in CallerHeaders, db \in BOOLEAN :
       Entry("raw", m, h, db, ExecConfigs, ExecSolvers)
  /\ UNCHANGED <<now, ticks, price, conc, settings, gm, ret, ev>>

Attempt == Iterate(RawOutcomes, ExecConfigs, ExecSolvers)

Next == Call \/ Attempt

Spec == Init /\ [][Next]_vars

-----------------------------------------------------------------------------
(* Specification of the executor for termination: one outcome of every     *)
(* kind, and every awaited network call (the request, the solver request,  *)
(* the release of a session) returns or raises, so that an iteration that  *)
(* has started ends                                                        *)

LiveOutcomes ==
  { Resp(200, "application/json", Body(<<"{}">>, JsonObj(None, None, NoCode))),
    Resp(200, "text/html", Body(ChallengePage, JsonFail)),
    Resp(302, "text/html", Body(<<"x">>, JsonFail)),
    Resp(403, "text/html", Body(ChallengePage, JsonFail)),
    Resp(404, "application/json",
         Body(<<"{detail:object}">>, JsonObj(Some(ObjV(1)), None, NoCode))),
    Resp(503, "text/html", Body(ChallengePage, JsonFail)),
    Resp(503, "text/plain", Body(<<"x">>, JsonFail)),
    TimeoutOutcome, TransportOutcome }

LiveCall ==
  /\ pc \in {"idle", "done", "raised"}
  /\ \E m \in Methods, db \in BOOLEAN :
       Entry("raw", m, DefaultHeaders, db, ExecConfigs, ExecSolvers)
  /\ UNCHANGED <<now, ticks, price, conc, settings, gm, ret, ev>>

\* an iteration that never ends the call: the request that would be
\* followed by a return is not answered
LiveAttempt_NeverEndsCall ==
  Iterate(LiveOutcomes, ExecConfigs, ExecSolvers) /\ pc' = "loop"

LiveAttempt == Iterate(LiveOutcomes, ExecConfigs, ExecSolvers)

NextLive == LiveCall \/ LiveAttempt

SpecLive == Init /\ [][NextLive]_vars /\ WF_vars(LiveAttempt)

-----------------------------------------------------------------------------
(* Specification of the clearance cache: time passes between calls, the    *)
(* solver gives every answer, close() releases the session                 *)

CacheOutcomes ==
  { Resp(200, "application/json", Body(<<"{}">>, JsonObj(None, None, NoCode))),
    Resp(403, "text/html", Body(ChallengePage, JsonFail)),
    TimeoutOutcome }

CacheCall ==
  /\ pc \in {"idle", "done", "raised"}
  /\ Entry("raw", "GET", DefaultHeaders, TRUE, ConfigReads, SolverResponses)
  /\ UNCHANGED <<now, ticks, price, conc, settings, gm, ret, ev>>

CacheAttempt == Iterate(CacheOutcomes, ConfigReads, SolverResponses)

\* close(), lines 868-873: "if self.session: await self.session.close();
\* self.session = None"; the release may raise, and then the assignment is
\* not reached
Close ==
  /\ pc \in {"idle", "done", "raised"}
  /\ ~IsNone(session)
  /\ \E release_raises \in BOOLEAN :
       session' = IF release_raises THEN session ELSE None
  /\ UNCHANGED <<cf_cookies, cf_user_agent, cf_cookies_time, now, ticks, price, conc, settings,
                 callVars, gm, ret, ev>>

NextCache == Tick \/ CacheCall \/ CacheAttempt \/ Close

SpecCache == Init /\ [][NextCache]_vars

-----------------------------------------------------------------------------
(* get_members, lines 497-541 *)

Max(a, b) == IF a >= b THEN a ELSE b

\* the server's members offset+1 .. offset+limit of its list 1 .. size
ServerPage(offset, limit, size) ==
  [i \in 1 .. Max(0, Min(limit, size - offset)) |-> offset + i]

TruePage(offset, size) ==
  JsonPage(Some(ServerPage(offset, PAGE_LIMIT, size)), Some(size))

OkPage(json) == Resp(200, "application/json", Body(<<"{page}">>, json))

\* answers to the request of one page: the true page; an empty page with
\* the true total; the true page without "total"; a page without "items";
\* failures
PageOutcomes ==
  { OkPage(TruePage(gm.offset, gm.server)),
    OkPage(JsonPage(Some(<<>>), Some(gm.server))),
    OkPage(JsonPage(Some(ServerPage(gm.offset, PAGE_LIMIT, gm.server)), None)),
    OkPage(JsonPage(None, Some(gm.server))),
    Resp(503, "text/html", Body(<<"x">>, JsonFail)),
    Resp(404, "application/json",
         Body(<<"{detail:str}">>, JsonObj(Some(StrV(<<"x">>)), None, "E_TOP"))) }

ServerSizes == {0, 1, 50, 51, 120}

MembersConfigs == {Cfg(FALSE, FALSE, "")}

\* "items = data.get('items', []); total = data.get('total', 0);
\* all_members.extend(items); if len(all_members) >= total: break;
\* offset += limit", with limit = PAGE_LIMIT: the locals after one page
GetMembersStep_StrictCompare(all_members, offset, data) ==
  LET items == IF IsNone(data.items) THEN <<>> ELSE Get(data.items)
      total == IF IsNone(data.total) THEN 0 ELSE Get(data.total)
      extended == all_members \o items
  IN  [all_members |-> extended,
       break |-> Len(extended) > total,
       offset |-> IF Len(extended) > total THEN offset ELSE offset + PAGE_LIMIT,
       progress |-> Len(items) > 0]

GetMembersStep(all_members, offset, data) ==
  LET items == IF IsNone(data.items) THEN <<>> ELSE Get(data.items)
      total == IF IsNone(data.total) THEN 0 ELSE Get(data.total)
      extended == all_members \o items
  IN  [all_members |-> extended,
       break |-> Len(extended) >= total,
       offset |-> IF Len(extended) >= total THEN offset ELSE offset + PAGE_LIMIT,
       progress |-> Len(items) > 0]

\* get_members is called: its locals are set and the first page is requested
GetMembers ==
  /\ pc \in {"idle", "done", "raised"}
  /\ gm.pc \in {"idle", "done", "raised"}
  /\ \E size \in ServerSizes :
       gm' = [GmIdle EXCEPT !.pc = "wait", !.server = size, !.requests = <<0>>]
  /\ Entry("get_members", "GET", DefaultHeaders, TRUE, MembersConfigs, ExecSolvers)
  /\ UNCHANGED <<now, ticks, price, conc, settings, ret, ev>>

PageAttempt ==
  /\ gm.pc = "wait"
  /\ Iterate(PageOutcomes, MembersConfigs, ExecSolvers)

\* a failure that returns the members of the pages read before it
PageFailed_KeepsMembers ==
  /\ gm.pc = "wait"
  /\ pc = "done"
  /\ ~result.success
  /\ gm' = [gm EXCEPT !.pc = "done", !.consistent = FALSE,
              !.result = GmResult(FALSE, gm.all_members, Len(gm.all_members),
                                  result.error, result.error_code)]
  /\ UNCHANGED <<svcVars, callVars, now, ticks, price, conc, settings, ret, ev>>

\* _make_request has returned a failure: lines 512-519
PageFailed ==
  /\ gm.pc = "wait"
  /\ pc = "done"
  /\ ~result.success
  /\ gm' = [gm EXCEPT !.pc = "done", !.consistent = FALSE,
              !.result = GmResult(FALSE, <<>>, 0, result.error, result.error_code)]
  /\ UNCHANGED <<svcVars, callVars, now, ticks, price, conc, settings, ret, ev>>

\* _make_request has returned a page and it was the last: lines 521-541
LastPage ==
  /\ gm.pc = "wait"
  /\ pc = "done"
  /\ result.success
  /\ \E step \in {GetMembersStep(gm.all_members, gm.offset, Get(result.data))} :
       /\ step.break
       /\ gm' = [gm EXCEPT
            !.pc = "done",
            !.all_members = step.all_members,
            !.consistent = @ /\ Get(result.data) = TruePage(gm.offset, gm.server),
            !.result = GmResult(TRUE, step.all_members, Len(step.all_members),
                                None, NoCode)]
  /\ UNCHANGED <<svcVars, callVars, now, ticks, price, conc, settings, ret, ev>>

\* _make_request has returned a page and more are expected: lines 521-532,
\* and the request of the next page
NextPage ==
  /\ gm.pc = "wait"
  /\ pc = "done"
  /\ result.success
  /\ Len(gm.requests) < MaxPages
  /\ \E step \in {GetMembersStep(gm.all_members, gm.offset, Get(result.data))} :
       /\ ~step.break
       /\ gm' = [gm EXCEPT
            !.all_members = step.all_members,
            !.offset = step.offset,
            !.requests = Append(@, step.offset),
            !.consistent = @ /\ Get(result.data) = TruePage(gm.offset, gm.server),
            !.stalled = @ \/ ~step.progress]
  /\ Entry("get_members", "GET", DefaultHeaders, TRUE, MembersConfigs, ExecSolvers)
  /\ UNCHANGED <<now, ticks, price, conc, settings, ret, ev>>

NextMembers == GetMembers \/ PageAttempt \/ PageFailed \/ LastPage \/ NextPage

SpecMembers == Init /\ [][NextMembers]_vars

-----------------------------------------------------------------------------
(* Properties of the executor, checked under Spec *)

StatusClass(st) ==
  IF 200 <= st /\ st < 300 THEN "2xx"
  ELSE IF 400 <= st /\ st < 500 THEN "4xx"
  ELSE IF st >= 500 THEN "5xx" ELSE "other"

InCall == pc \in {"loop", "done"}

\* the budget is used up by failures the loop retries
Exhausted ==
  pc = "done" /\ log.only_retryable /\ log.iterations = MAX_RETRIES

\* the retry count written in an error message (0: the message has none)
RetriesInMessage(e) == e.n

\* the last response was treated as a challenge: recovery was called for it,
\* or the call ended with the error code of a challenge
ClassifiedChallenge ==
  \/ log.last_recovery # "none"
  \/ pc = "done" /\ ~result.success /\ result.error_code = "cloudflare_challenge"

\* C1: within one logical call _try_cf_recovery is invoked at most once.
\* Violated: a recovery that raises is caught by "except Exception", the loop
\* goes on with cf_retried still False, and the next challenge calls it again.
C1_RecoveryAtMostOnce == log.recoveries <= 1

\* C2: a successful recovery replays the request at the same attempt index
\* and consumes no slot of the budget.  Violated: "continue" in the for loop
\* moves to the next value of attempt, or leaves the loop after the last.
C2_ReplaySameAttempt ==
  [][(~cf_retried /\ cf_retried') => (pc' = "loop" /\ attempt' = attempt)]_vars

\* C3: a 4xx response that the classifier does not tag as a challenge ends
\* the call at once with a failure envelope carrying that status code.
\* Violated: a "detail" that is a list or an object makes
\* _simplify_error_text raise, and the loop backs off and retries.
C3_ClientErrorEndsCall ==
  (InCall /\ log.last.kind = "response"
     /\ StatusClass(log.last.status_code) = "4xx" /\ ~log.last.tagged)
  => (pc = "done" /\ ~result.success
        /\ result.status_code = log.last.status_code)

\* C4: while every attempt fails with a plain 5xx, a timeout or a transport
\* error, the k-th failed attempt (k < 3) is followed by a sleep of
\* RETRY_DELAYS[k] and the next attempt; the third failed attempt ends the
\* call with a failure; never more than 3 requests are sent.
C4_BackoffSchedule ==
  (InCall /\ log.only_retryable)
  => /\ log.dispatches = log.iterations
     /\ log.dispatches <= MAX_RETRIES
     /\ log.sleeps = SubSeq(RETRY_DELAYS, 1, Min(log.iterations, MAX_RETRIES - 1))
     /\ log.iterations < MAX_RETRIES => (pc = "loop" /\ attempt = log.iterations)
     /\ log.iterations = MAX_RETRIES => (pc = "done" /\ ~result.success)

C4_Witness ==
  Exhausted /\ log.sleeps = <<1, 2>> /\ log.dispatches = 3

\* C5 as stated: after the budget is exhausted the error message contains
\* the attempt count, for a plain 5xx, a timeout and a transport error.
\* Violated: the message of the transport error is "request exception: ..."
C5_CountInEveryMessage ==
  Exhausted => RetriesInMessage(Get(result.error)) = MAX_RETRIES

\* C5 amended: after the budget is exhausted the message contains the
\* attempt count when the last failure is a plain 5xx or a timeout; for a
\* transport error it is the exception message, without a count.
C5_CountByFailureKind ==
  Exhausted
  => Get(result.error) =
       CASE log.last.kind = "timeout" -> TimeoutRetriedErr(MAX_RETRIES)
         [] log.last.kind = "error" -> ExceptionErr("transport error")
         [] OTHER -> ServerRetriedErr(log.last.status_code, MAX_RETRIES)

C5_Witness == Exhausted /\ log.last.kind = "timeout"

\* C6: _make_request never raises to its caller.  Violated: the session is
\* created before the try block, so a failure of _create_session escapes.
C6_NeverRaises == pc # "raised"

-----------------------------------------------------------------------------
(* Properties of the clearance cache, checked under SpecCache *)

\* C8 as stated: a logical call made while the cached cookies are younger
\* than CF_COOKIE_TTL issues no solver request at entry, and one made when
\* they are CF_COOKIE_TTL old or older issues a solver request (solver
\* enabled), whether or not a session already exists.  Violated: with a
\* stored session the entry of _make_request never looks at the cache.
C8_RefreshAtTtl ==
  (InCall /\ log.entry.cached)
  => /\ log.entry.age < CF_COOKIE_TTL => log.entry.reqs = 0
     /\ (log.entry.age >= CF_COOKIE_TTL /\ log.entry.usable) => log.entry.reqs = 1

\* C8 amended: when no session is stored, a logical call issues no solver
\* request at entry while the cached cookies are younger than CF_COOKIE_TTL,
\* and exactly one when they are CF_COOKIE_TTL old or older and the solver
\* is enabled with a URL; when a session is stored it issues none at entry,
\* whatever the age of the cache.
C8_RefreshAtTtlWithoutSession ==
  (InCall /\ log.entry.cached)
  => /\ log.entry.age < CF_COOKIE_TTL => log.entry.reqs = 0
     /\ (log.entry.age >= CF_COOKIE_TTL /\ log.entry.usable /\ ~log.entry.had_session)
          => log.entry.reqs = 1
     /\ log.entry.had_session => log.entry.reqs = 0

C8_Witness ==
  /\ InCall /\ log.entry.cached /\ ~log.entry.had_session /\ log.entry.usable
  /\ log.entry.age = CF_COOKIE_TTL /\ log.entry.reqs = 1

-----------------------------------------------------------------------------
(* Properties of get_members, checked under SpecMembers *)

\* the offsets 0, PAGE_LIMIT, 2 * PAGE_LIMIT, ... below size (0 alone when
\* size = 0)
PageOffsets(size) ==
  [k \in 1 .. Max(1, (size + PAGE_LIMIT - 1) \div PAGE_LIMIT) |-> (k - 1) * PAGE_LIMIT]

IsPrefix(a, b) == Len(a) <= Len(b) /\ a = SubSeq(b, 1, Len(a))

\* C9: get_members ends when a page brings no item while the reported total
\* is above the accumulated count, instead of requesting the next page.
\* Violated: the loop adds limit to offset and requests again, without end
\* as long as the server answers so.
C9_EndsWithoutProgress == gm.stalled => gm.pc = "done"

\* C10: against a server that answers every page request with its true page
\* and total, get_members requests exactly the offsets 0, 50, 100, ... below
\* the total (offset 0 alone for an empty list), and returns success with
\* the server's members in order, each once, and total equal to their number.
C10_ConsistentPagination ==
  gm.consistent
  => /\ IsPrefix(gm.requests, PageOffsets(gm.server))
     /\ gm.pc = "done"
          => /\ gm.requests = PageOffsets(gm.server)
             /\ gm.result.success
             /\ gm.result.members = [i \in 1 .. gm.server |-> i]
             /\ gm.result.total = gm.server

C10_Witness ==
  /\ gm.pc = "done" /\ gm.consistent /\ gm.server = 120
  /\ gm.requests = <<0, 50, 100>> /\ Len(gm.result.members) = 120

-----------------------------------------------------------------------------
(* Specification of the session state: the methods that read and write the *)
(* clearance cache and the stored session are called one after another, in *)
(* any order, with logical calls between them                              *)

\* how the solver call of _fetch_cf_cookies ends (lines 96-133)
SolverKind(config, sol) ==
  IF config.raises THEN "config raised"
  ELSE IF ~Usable(config) THEN "not asked"
  ELSE IF sol.kind = "exception" THEN "exception"
  ELSE IF sol.http # 200 THEN "http error"
  ELSE IF sol.status # "ok" THEN "status not ok"
  ELSE IF CookieKeyError(sol.cookies) THEN "malformed"
  ELSE "ok"

Cache(S) == <<S.cf_cookies, S.cf_user_agent, S.cf_cookies_time>>

\* the event of a method called in state S that ended as r
Observed(o, S, r, solver) ==
  [NoEvent EXCEPT
     !.op = o, !.ok = r.ok, !.raised = r.raised, !.reqs = r.reqs,
     !.valid_before = _cf_cookies_valid(S, now),
     !.had_session = ~IsNone(S.session),
     !.cache_kept = (Cache(r.S) = Cache(S)),
     !.session_kept = (r.S.session = S.session),
     !.solver = solver,
     !.prev_op = ev.op]

Idle == pc \in {"idle", "done", "raised"}

\* the frame of a logical call that has ended is gone
ForgetCall ==
  /\ pc' = "idle"
  /\ op' = "none"
  /\ method' = "GET"
  /\ db_session' = TRUE
  /\ headers' = DefaultHeaders
  /\ attempt' = 0
  /\ cf_retried' = FALSE
  /\ result' = NoResult
  /\ log' = EmptyLog

\* answers of the solver: every way to fail, a solution with a cookie and a
\* user agent, a solution without cookies
SessionSolvers ==
  { SolverResp("exception", 0, "", <<>>, ""),
    SolverResp("response", 500, "", <<>>, ""),
    SolverResp("response", 200, "error", <<>>, ""),
    SolverResp("response", 200, "ok",
               <<Cookie(Some("cf_clearance"), Some("A"))>>, "UA-A"),
    SolverResp("response", 200, "ok", <<>>, ""),
    SolverResp("response", 200, "ok",
               <<Cookie(Some("cf_clearance"), None)>>, "UA-A") }

\* the cached cookies grow old: CF_COOKIE_TTL seconds pass
Expire ==
  /\ Idle
  /\ ticks < MaxExpiries
  /\ now' = now + CF_COOKIE_TTL
  /\ ticks' = ticks + 1
  /\ ev' = [NoEvent EXCEPT !.op = "expire"]
  /\ UNCHANGED <<svcVars, callVars, settings, price, conc, gm, ret>>

\* _fetch_cf_cookies(db_session)
FetchCookies ==
  /\ Idle
  /\ \E config \in ConfigReads :
     \E sol \in IF Usable(config) THEN SessionSolvers ELSE {NoSolver} :
     \E r \in {_fetch_cf_cookies(Self, config, sol, now)} :
       /\ SetSvc(r.S)
       /\ ev' = Observed("fetch", Self, r, SolverKind(config, sol))
  /\ ForgetCall
  /\ UNCHANGED <<now, ticks, price, conc, settings, gm, ret>>

\* _ensure_cf_cookies(db_session)
EnsureCookies ==
  /\ Idle
  /\ \E config \in ConfigReads :
     \E sol \in IF Usable(config) THEN SessionSolvers ELSE {NoSolver} :
     \E r \in {_ensure_cf_cookies(Self, config, sol, now)} :
       /\ SetSvc(r.S)
       /\ ev' = Observed("ensure", Self, r,
                         IF _cf_cookies_valid(Self, now) THEN "not asked"
                         ELSE SolverKind(config, sol))
  /\ ForgetCall
  /\ UNCHANGED <<now, ticks, price, conc, settings, gm, ret>>

\* _try_cf_recovery(db_session); config2 and sol2 are read when
\* _create_session finds the cookies just fetched not valid
Recover ==
  /\ Idle
  /\ \E config1 \in ConfigReads :
     \E sol1 \in IF Usable(config1) THEN SessionSolvers ELSE {NoSolver} :
     \E f \in {_fetch_cf_cookies(Svc(session, None, None, 0), config1, sol1, now)} :
     \E again \in {f.ok /\ ~_cf_cookies_valid(f.S, now)} :
     \E config2 \in IF again THEN ConfigReads ELSE {NoConfig} :
     \E sol2 \in IF again /\ Usable(config2) THEN SessionSolvers ELSE {NoSolver} :
     \E r \in {_try_cf_recovery(Self, config1, sol1, config2, sol2, now)} :
       /\ SetSvc(r.S)
       /\ ev' = Observed("recover", Self, r, SolverKind(config1, sol1))
  /\ ForgetCall
  /\ UNCHANGED <<now, ticks, price, conc, settings, gm, ret>>

\* close()
CloseSession ==
  /\ Idle
  /\ \E release_raises \in IF IsNone(session) THEN {FALSE} ELSE BOOLEAN :
     \E r \in {close(Self, release_raises)} :
       /\ SetSvc(r.S)
       /\ ev' = [Observed("close", Self, r, "not asked")
                   EXCEPT !.release_raised = release_raises]
  /\ ForgetCall
  /\ UNCHANGED <<now, ticks, price, conc, settings, gm, ret>>

\* clear_session()
ClearSession ==
  /\ Idle
  /\ \E release_raises \in IF IsNone(session) THEN {FALSE} ELSE BOOLEAN :
     \E r \in {clear_session(Self, release_raises)} :
       /\ SetSvc(r.S)
       /\ ev' = [Observed("clear", Self, r, "not asked")
                   EXCEPT !.release_raised = release_raises]
  /\ ForgetCall
  /\ UNCHANGED <<now, ticks, price, conc, settings, gm, ret>>

\* URLs posted to the admin route, as texts
PostedUrls ==
  { <<>>, <<WS>>, <<"http://", "solver:8191">>,
    <<WS, "https://", "solver:8191">>, <<"solver:8191">> }

\* outcomes of: await settings_service.update_flaresolverr_config(...)
SaveOutcomes == {"saved", "not saved", "raised"}

\* settings_service.update_flaresolverr_config(db, enabled, url): the stored
\* configuration after it; it stores what it is given when it returns True
\* and leaves the stored configuration when it returns False or raises
settings_update(stored, enabled, url, save) ==
  IF save = "saved" THEN [enabled |-> enabled, url |-> url] ELSE stored

\* the route storing the URL as posted and checking only that it is not empty
update_flaresolverr_config_NoUrlCheck(S, stored, enabled, url, save, release_raises) ==
  LET c == clear_session(S, release_raises)
  IN  IF save # "saved"
      THEN [S |-> S, stored |-> stored, http |-> 500, saved |-> save,
            cleared |-> FALSE, raised |-> FALSE]
      ELSE [S |-> c.S, stored |-> settings_update(stored, enabled, Strip(url), save),
            http |-> IF c.raised THEN 500 ELSE 200, saved |-> save,
            cleared |-> TRUE, raised |-> c.raised]

\* routes/admin.py, update_flaresolverr_config (lines 1339-1380): the
\* service state and the stored configuration after the request, the HTTP
\* status of the answer and whether clear_session was called
update_flaresolverr_config(S, stored, enabled, url, save, release_raises) ==
  IF enabled /\ Len(url) > 0
       /\ ~(StartsWith(Strip(url), "http://") \/ StartsWith(Strip(url), "https://"))
  THEN [S |-> S, stored |-> stored, http |-> 400, saved |-> "none",
        cleared |-> FALSE, raised |-> FALSE]
  ELSE IF save = "raised"
  THEN [S |-> S, stored |-> stored, http |-> 500, saved |-> save,
        cleared |-> FALSE, raised |-> FALSE]
  ELSE IF save = "not saved"
  THEN [S |-> S, stored |-> stored, http |-> 500, saved |-> save,
        cleared |-> FALSE, raised |-> FALSE]
  ELSE LET c == clear_session(S, release_raises)
       IN  [S |-> c.S,
            stored |-> settings_update(stored, enabled,
                                       IF Len(url) > 0 THEN Strip(url) ELSE <<>>,
                                       save),
            http |-> IF c.raised THEN 500 ELSE 200, saved |-> save,
            cleared |-> TRUE, raised |-> c.raised]

UpdateConfig ==
  /\ Idle
  /\ \E enabled \in BOOLEAN, url \in PostedUrls, save \in SaveOutcomes :
     \E release_raises \in IF IsNone(session) THEN {FALSE} ELSE BOOLEAN :
     \E u \in {update_flaresolverr_config(Self, settings, enabled, url, save,
                                          release_raises)} :
       /\ SetSvc(u.S)
       /\ settings' = u.stored
       /\ ev' = [Observed(IF u.cleared THEN "clear" ELSE "update_config", Self,
                          Ret(u.S, FALSE, u.raised, 0), "not asked")
                   EXCEPT !.release_raised = u.raised, !.saved = u.saved,
                          !.http = u.http,
                          !.stored_kept = (u.stored = settings)]
  /\ ForgetCall
  /\ UNCHANGED <<now, ticks, price, conc, gm, ret>>

SessionOutcomes ==
  { Resp(200, "application/json", Body(<<"{}">>, JsonObj(None, None, NoCode))),
    Resp(403, "text/html", Body(ChallengePage, JsonFail)) }

\* a logical call; the event keeps the method called before it
SessionCall ==
  /\ Idle
  /\ Entry("raw", "GET", DefaultHeaders, TRUE, ConfigReads, SessionSolvers)
  /\ ev' = [NoEvent EXCEPT !.op = "call", !.prev_op = ev.op,
                           !.had_session = ~IsNone(session),
                           !.session_kept = (session' = session),
                           !.valid_before = _cf_cookies_valid(Self, now)]
  /\ UNCHANGED <<now, ticks, price, conc, settings, gm, ret>>

SessionAttempt == Iterate(SessionOutcomes, ConfigReads, SessionSolvers)

NextSession ==
  \/ Expire \/ FetchCookies \/ EnsureCookies \/ Recover \/ CloseSession
  \/ ClearSession \/ SessionCall \/ SessionAttempt

SpecSession == Init /\ [][NextSession]_vars

-----------------------------------------------------------------------------
(* Specification of the admin route: requests that update the FlareSolverr *)
(* configuration, between logical calls                                    *)

NextAdmin == UpdateConfig \/ SessionCall \/ SessionAttempt

SpecAdmin == Init /\ [][NextAdmin]_vars

-----------------------------------------------------------------------------
(* Properties of the session state, checked under SpecSession *)

CacheCleared ==
  IsNone(cf_cookies) /\ IsNone(cf_user_agent) /\ cf_cookies_time = 0

\* the solver call of the last method ended without a solution
SolverFailed ==
  ev.solver \in {"exception", "http error", "status not ok", "malformed"}

\* C12: after close() no session is stored, on every path, also when the
\* release of the underlying session raises.  Violated: the assignment
\* "self.session = None" follows the awaited release and is skipped when the
\* release raises.
C12_CloseLeavesNoSession == ev.op = "close" => IsNone(session)

\* C13: after clear_session() the cached cookies, the user agent and the
\* capture time are reset and no session is stored; the logical call that
\* follows it finds no session and no cache and, with the solver enabled,
\* asks the solver once before it dispatches; the admin route calls
\* clear_session whenever the configuration was saved.  Violated: when the
\* release of the session raises inside close(), the session stays stored.
C13_ClearRebuildsClean ==
  /\ ev.op = "clear" => (CacheCleared /\ IsNone(session))
  /\ (ev.op = "call" /\ ev.prev_op = "clear")
       => /\ ~log.entry.had_session
          /\ ~log.entry.cached
          /\ log.entry.usable => log.entry.reqs = 1
  /\ (ev.http # 0 /\ ev.saved = "saved") => ev.op = "clear"

C16_FailedFetchKeepsCache ==
  (ev.op = "fetch" /\ SolverFailed)
  => (~ev.ok /\ ~ev.raised /\ ev.cache_kept /\ ev.session_kept)

C16_Witness ==
  /\ ev.op = "fetch" /\ ev.solver = "malformed" /\ ~ev.ok
  /\ ~IsNone(cf_cookies) /\ NonEmpty(Get(cf_cookies))

\* C17: _ensure_cf_cookies issues at most one solver request, and none when
\* it is called while the cached cookies are valid: then it changes nothing.
\* Two calls in a row with the cache still valid at the second issue at most
\* one request together.
C17_EnsureIdempotent ==
  ev.op = "ensure"
  => /\ ev.reqs <= 1
     /\ ev.valid_before => (ev.reqs = 0 /\ ev.cache_kept /\ ev.session_kept)

C17_Witness ==
  /\ ev.op = "ensure" /\ ev.prev_op = "ensure" /\ ev.valid_before
  /\ ev.reqs = 0

\* C18: in every state the cached cookies are None exactly when the capture
\* time is 0.
C18_CookiesAndTimeTogether == IsNone(cf_cookies) <=> cf_cookies_time = 0

C18_Witness ==
  /\ ev.op = "clear" /\ ~ev.cache_kept /\ IsNone(cf_cookies)
  /\ cf_cookies_time = 0

-----------------------------------------------------------------------------
(* Further properties of the executor, checked under Spec *)

\* the last response is one the loop takes for a challenge: a 2xx whose
\* body does not decode and is a challenge page, a 4xx whose error message
\* the classifier tags as a challenge, a 5xx whose body is a challenge page
ChallengeDetected ==
  /\ log.iterations > 0
  /\ log.last.kind = "response"
  /\ \/ /\ StatusClass(log.last.status_code) = "2xx"
        /\ log.last.json = "fail" /\ log.last.challenge_body
     \/ StatusClass(log.last.status_code) = "4xx" /\ log.last.tagged
     \/ StatusClass(log.last.status_code) = "5xx" /\ log.last.challenge_body

\* C19: when a challenge is detected and not replayed (recovery failed, was
\* already used in this call, or there is no db_session), the call ends at
\* once with success False, the challenge message and the error code
\* "cloudflare_challenge", for 2xx, 4xx and 5xx alike.  Violated: a recovery
\* that raises is followed by a backoff sleep and the next attempt; and the
\* envelope of a 4xx carries the error code of its payload when it has one.
C19_UnreplayedChallengeEnds ==
  (InCall /\ ChallengeDetected /\ log.last_recovery # "ok")
  => /\ pc = "done"
     /\ ~result.success
     /\ result.status_code = log.last.status_code
     /\ result.error = Some(TextErr(MSG_CF_BLOCKED))
     /\ result.error_code = "cloudflare_challenge"

-----------------------------------------------------------------------------
(* The upstream operations built on _make_request (lines 433-728) and the  *)
(* two credential refresh flows (lines 730-866)                            *)

\* messages that send_invite and delete_member put in place of the error
MSG_ALREADY_MEMBER == <<"MSG:user is already a member of the team">>
MSG_TEAM_FULL == <<"MSG:team is full or the email is malformed">>
MSG_NO_PERMISSION == <<"MSG:no permission to remove the member">>
MSG_NO_USER == <<"MSG:user does not exist">>
MSG_NO_ACCESS_TOKEN == <<"MSG:response holds no accessToken">>

\* decoded bodies with the members the operations read
JsonNull == Json("null", None, None, NoCode, None, None)

\* an entry of the account map: its key, and its members "account" and
\* "entitlement", each absent or a dict whose members are absent or set
AccountInfo(name, plan_type) == [name |-> name, plan_type |-> plan_type]
Entitlement(subscription_plan, expires_at, has_active_subscription) ==
  [subscription_plan |-> subscription_plan, expires_at |-> expires_at,
   has_active_subscription |-> has_active_subscription]
AccountEntry(account_id, account, entitlement) ==
  [account_id |-> account_id, account |-> account, entitlement |-> entitlement]

\* {"accounts": {...}}: the entries of the account map, in the order of the
\* dict
JsonAccounts(entries) ==
  [t |-> "dict", detail |-> None, error |-> None, code |-> NoCode,
   items |-> None, total |-> None, accounts |-> entries]

\* an account map with two team accounts (one with every member, one with
\* an empty "account" but for its plan and no "entitlement"), accounts of
\* other plans and an entry without "account"
SomeAccounts ==
  << AccountEntry("acc-1", Some(AccountInfo(Some("T1"), Some("team"))),
                  Some(Entitlement(Some("chatgptteamplan"), Some("2027-01-01"),
                                   Some(TRUE)))),
     AccountEntry("acc-2", Some(AccountInfo(Some("P"), Some("free"))),
                  Some(Entitlement(None, None, Some(FALSE)))),
     AccountEntry("acc-3", Some(AccountInfo(None, Some("team"))), None),
     AccountEntry("acc-4", Some(AccountInfo(Some("E"), Some("enterprise"))),
                  Some(Entitlement(Some("ent"), None, None))),
     AccountEntry("acc-5", None, None) >>

\* {"accessToken": ..., "access_token": ..., "refresh_token": ...}
JsonTokens(accessToken, access_token, refresh_token) ==
  [t |-> "dict", detail |-> None, error |-> None, code |-> NoCode,
   items |-> None, total |-> None, accessToken |-> accessToken,
   access_token |-> access_token, refresh_token |-> refresh_token]

\* {"error": "...", "error_description": "..."} of the OAuth endpoint
JsonOAuthError(code, description) ==
  [t |-> "dict", detail |-> None, error |-> Some(ErrInfo(FALSE, NoCode)),
   code |-> NoCode, items |-> None, total |-> None,
   oauth_error |-> code, error_description |-> description]

\* d.get(k) for a member that holds an Optional
DictGet(d, k) == IF k \in DOMAIN d THEN d[k] ELSE None

OpRet(o, state, success, status, payload, error, code) ==
  [op |-> o, state |-> state, success |-> success, status_code |-> status,
   payload |-> payload, error |-> error, error_code |-> code]

OpRaised(o) == [NoRet EXCEPT !.op = o, !.state = "raised"]

\* a list returned as payload, with its "total" when the operation sets one
ListPayload(items, total) == [t |-> "list", items |-> items, total |-> total]
TokenPayload(access_token, refresh_token) ==
  [t |-> "token", access_token |-> access_token, refresh_token |-> refresh_token]

\* the operations that return the dict of _make_request itself
PassThrough(o, env) ==
  OpRet(o, "returned", env.success, Some(env.status_code), env.data, env.error,
        env.error_code)

\* lines 468-478
send_invite(env) ==
  LET e409 == IF env.status_code = 409 THEN Some(TextErr(MSG_ALREADY_MEMBER))
              ELSE env.error
      e422 == IF env.status_code = 422 THEN Some(TextErr(MSG_TEAM_FULL))
              ELSE e409
  IN  [PassThrough("send_invite", env) EXCEPT !.error = e422]

\* lines 624-626
delete_invite(env) == PassThrough("delete_invite", env)

\* lines 656-666
delete_member(env) ==
  LET e403 == IF env.status_code = 403 THEN Some(TextErr(MSG_NO_PERMISSION))
              ELSE env.error
      e404 == IF env.status_code = 404 THEN Some(TextErr(MSG_NO_USER))
              ELSE e403
  IN  [PassThrough("delete_member", env) EXCEPT !.error = e404]

\* lines 569-589; data.get raises when data is not a dict
get_invites(env) ==
  IF ~env.success
  THEN OpRet("get_invites", "returned", FALSE, None, Some(ListPayload(<<>>, 0)),
             env.error, env.error_code)
  ELSE LET data == Get(env.data)
           items == IF IsNone(data.items) THEN <<>> ELSE Get(data.items)
           total == IF IsNone(data.total) THEN Len(items) ELSE Get(data.total)
       IN  IF data.t # "dict" THEN OpRaised("get_invites")
           ELSE OpRet("get_invites", "returned", TRUE, None,
                      Some(ListPayload(items, total)), None, NoCode)

\* d.get(k, default) for a member that holds an Optional
GetOr(o, default) == IF IsNone(o) THEN default ELSE Get(o)

\* account_info.get("account", {}), account_info.get("entitlement", {})
AccountOf(a) == GetOr(a.account, AccountInfo(None, None))
EntitlementOf(a) == GetOr(a.entitlement, Entitlement(None, None, None))

\* a filter that drops only the free accounts
IsTeam_NotFree(a) == AccountOf(a).plan_type # Some("free")

\* line 712: account.get("plan_type") == "team"
IsTeam(a) == AccountOf(a).plan_type = Some("team")

\* lines 713-720: the dict appended for a team account
TeamAccount(a) ==
  [account_id |-> a.account_id,
   name |-> GetOr(AccountOf(a).name, ""),
   plan_type |-> GetOr(AccountOf(a).plan_type, ""),
   subscription_plan |-> GetOr(EntitlementOf(a).subscription_plan, ""),
   expires_at |-> GetOr(EntitlementOf(a).expires_at, ""),
   has_active_subscription |-> GetOr(EntitlementOf(a).has_active_subscription, FALSE)]

\* team_accounts after the loop of lines 707-720
RECURSIVE TeamAccounts(_)
TeamAccounts(entries) ==
  IF entries = <<>> THEN <<>>
  ELSE (IF IsTeam(Head(entries)) THEN <<TeamAccount(Head(entries))>> ELSE <<>>)
         \o TeamAccounts(Tail(entries))

\* lines 691-728
get_account_info(env) ==
  IF ~env.success
  THEN OpRet("get_account_info", "returned", FALSE, None,
             Some(ListPayload(<<>>, 0)), env.error, env.error_code)
  ELSE LET data == Get(env.data)
           accounts_data == IF "accounts" \in DOMAIN data THEN data.accounts
                            ELSE <<>>
       IN  IF data.t # "dict" THEN OpRaised("get_account_info")
           ELSE OpRet("get_account_info", "returned", TRUE, None,
                      Some(ListPayload(TeamAccounts(accounts_data), 0)),
                      None, NoCode)

SimpleOps ==
  {"send_invite", "get_invites", "delete_invite", "delete_member",
   "get_account_info"}

OpMethod(o) ==
  CASE o = "send_invite" -> "POST"
    [] o \in {"delete_invite", "delete_member"} -> "DELETE"
    [] OTHER -> "GET"

\* what the operation o makes of the dict returned by _make_request
Finish(o, env) ==
  CASE o = "send_invite" -> send_invite(env)
    [] o = "delete_invite" -> delete_invite(env)
    [] o = "delete_member" -> delete_member(env)
    [] o = "get_invites" -> get_invites(env)
    [] OTHER -> get_account_info(env)

\* error of a refresh flow that failed with an HTTP status: the text of the
\* body, or the member of the decoded body that replaces it
RawErr(v) == IF v.t = "str" THEN TextErr(v.s) ELSE Err("json value", <<>>, 0, v.n)
StrErr(e) == Err("exception text", <<e>>, 0, 0)

\* lines 761-797, after the session exists
refresh_access_token_with_session_token(r) ==
  LET o == "refresh_with_session_token"
      json == r.body.json
      accessToken == DictGet(json, "accessToken")
      detail == IF json.t = "dict" /\ ~IsNone(json.detail) THEN Get(json.detail)
                ELSE StrV(r.body.text)
      code == ClientErrorPayload(r.body).error_code
  IN  IF r.kind # "response" THEN OpRet(o, "returned", FALSE, None, None,
                                        Some(StrErr(r.kind)), NoCode)
      ELSE IF r.status_code = 200
      THEN IF json.t # "dict"
           THEN OpRet(o, "returned", FALSE, None, None,
                      Some(StrErr("decode or attribute error")), NoCode)
           ELSE IF ~IsNone(accessToken)
           THEN OpRet(o, "returned", TRUE, None,
                      Some(TokenPayload(accessToken, None)), None, NoCode)
           ELSE OpRet(o, "returned", FALSE, None, None,
                      Some(TextErr(MSG_NO_ACCESS_TOKEN)), NoCode)
      ELSE OpRet(o, "returned", FALSE, Some(r.status_code), None,
                 Some(RawErr(detail)), code)

\* lines 835-866, after the session exists
refresh_access_token_with_refresh_token(r) ==
  LET o == "refresh_with_refresh_token"
      json == r.body.json
      access_token == DictGet(json, "access_token")
      description == IF json.t = "dict" /\ ~IsNone(DictGet(json, "error_description"))
                     THEN StrV(Get(DictGet(json, "error_description")))
                     ELSE StrV(r.body.text)
      code == IF json.t = "dict" /\ "oauth_error" \in DOMAIN json
              THEN json.oauth_error ELSE NoCode
  IN  IF r.kind # "response" THEN OpRet(o, "returned", FALSE, None, None,
                                        Some(StrErr(r.kind)), NoCode)
      ELSE IF r.status_code = 200
      THEN IF json.t # "dict"
           THEN OpRet(o, "returned", FALSE, None, None,
                      Some(StrErr("decode or attribute error")), NoCode)
           ELSE OpRet(o, "returned", TRUE, None,
                      IF IsNone(access_token) THEN None
                      ELSE Some(TokenPayload(access_token,
                                             DictGet(json, "refresh_token"))),
                      None, NoCode)
      ELSE OpRet(o, "returned", FALSE, Some(r.status_code), None,
                 Some(RawErr(description)), code)

-----------------------------------------------------------------------------
(* Specification of the operations: one operation at a time, every answer  *)
(* of the upstream                                                         *)

OpsOutcomes ==
  { Resp(200, "application/json", Body(<<"{page}">>, JsonPage(Some(<<1>>), Some(1)))),
    Resp(200, "application/json", Body(<<"{}">>, JsonObj(None, None, NoCode))),
    Resp(200, "application/json", Body(<<"null">>, JsonNull)),
    Resp(200, "application/json", Body(<<"[]">>, JsonList)),
    Resp(200, "application/json",
         Body(<<"{accounts}">>, JsonAccounts(SomeAccounts))),
    Resp(200, "text/html", Body(ChallengePage, JsonFail)),
    Resp(409, "application/json",
         Body(<<"{detail:str}">>, JsonObj(Some(StrV(<<"x">>)), None, "E_TOP"))),
    Resp(409, "text/html", Body(<<"<html", "x">>, JsonFail)),
    Resp(422, "application/json",
         Body(<<"{detail:list}">>, JsonObj(Some(ListV(1)), None, NoCode))),
    Resp(422, "text/plain", Body(<<"x">>, JsonFail)),
    Resp(403, "text/html", Body(ChallengePage, JsonFail)),
    Resp(404, "application/json",
         Body(<<"{detail:str}">>, JsonObj(Some(StrV(<<"x">>)), None, NoCode))),
    Resp(404, "application/json",
         Body(<<"{detail:object}">>, JsonObj(Some(ObjV(1)), None, NoCode))),
    Resp(503, "text/html", Body(<<"x">>, JsonFail)),
    TimeoutOutcome }

RefreshOutcomes ==
  { Resp(200, "application/json",
         Body(<<"{tokens}">>, JsonTokens(Some("AT"), Some("AT"), Some("RT")))),
    Resp(200, "application/json", Body(<<"{}">>, JsonObj(None, None, NoCode))),
    Resp(200, "application/json", Body(<<"[]">>, JsonList)),
    Resp(200, "text/html", Body(ChallengePage, JsonFail)),
    Resp(401, "application/json",
         Body(<<"{detail:str}">>, JsonObj(Some(StrV(<<"x">>)), None, "E_TOP"))),
    Resp(400, "application/json",
         Body(<<"{oauth error}">>, JsonOAuthError("invalid_grant", Some(<<"x">>)))),
    Resp(403, "text/html", Body(ChallengePage, JsonFail)),
    Resp(502, "text/html", Body(<<"<html", "x">>, JsonFail)),
    Resp(500, "text/plain", Body(<<"x">>, JsonFail)),
    TimeoutOutcome,
    TransportOutcome }

NoOpPending == ret.state # "pending"

\* an operation is called and calls _make_request
OpCall ==
  /\ Idle
  /\ NoOpPending
  /\ \E o \in SimpleOps :
       /\ Entry(o, OpMethod(o), DefaultHeaders, TRUE, ExecConfigs, ExecSolvers)
       /\ ret' = [NoRet EXCEPT !.op = o, !.state = "pending"]
  /\ UNCHANGED <<now, ticks, price, conc, settings, gm, ev>>

OpAttempt ==
  /\ ret.state = "pending"
  /\ Iterate(OpsOutcomes, ExecConfigs, ExecSolvers)

\* _make_request has returned or raised: the operation returns or raises
OpReturn ==
  /\ ret.state = "pending"
  /\ pc \in {"done", "raised"}
  /\ ret' = IF pc = "raised" THEN OpRaised(op) ELSE Finish(op, result)
  /\ UNCHANGED <<svcVars, callVars, now, ticks, price, conc, settings, gm, ev>>

\* a refresh flow: "if not self.session: self.session = await
\* self._create_session(db_session)", then one request without retry
Refresh(o) ==
  /\ Idle
  /\ NoOpPending
  /\ \E config \in ExecConfigs :
     \E sol \in IF IsNone(session) /\ ~_cf_cookies_valid(Self, now) /\ Usable(config)
                THEN ExecSolvers ELSE {NoSolver} :
     \E c \in {_create_session(Self, config, sol, now)} :
     \E r \in RefreshOutcomes :
     \E unsent \in {IsNone(session) /\ c.raised} :
       /\ IF unsent
          THEN SetSvc(c.S) /\ ret' = OpRaised(o)
          ELSE /\ IF IsNone(session)
                  THEN SetSvc([c.S EXCEPT !.session = Some(c.session)])
                  ELSE UNCHANGED svcVars
               /\ ret' = IF o = "refresh_with_session_token"
                         THEN refresh_access_token_with_session_token(r)
                         ELSE refresh_access_token_with_refresh_token(r)
       \* the log counts the one request of the flow and the solver
       \* requests of the session creation
       /\ log' = [EmptyLog EXCEPT
            !.dispatches = IF unsent THEN 0 ELSE 1,
            !.solver_reqs = IF IsNone(session) THEN c.reqs ELSE 0,
            !.last = IF unsent THEN NotSent ELSE Seen(r)]
  \* the frame of an earlier logical call is gone
  /\ pc' = "idle"
  /\ op' = "none"
  /\ method' = "GET"
  /\ db_session' = TRUE
  /\ headers' = DefaultHeaders
  /\ attempt' = 0
  /\ cf_retried' = FALSE
  /\ result' = NoResult
  /\ UNCHANGED <<now, ticks, price, conc, settings, gm, ev>>

RefreshWithSessionToken == Refresh("refresh_with_session_token")
RefreshWithRefreshToken == Refresh("refresh_with_refresh_token")

NextOps ==
  \/ OpCall \/ OpAttempt \/ OpReturn
  \/ RefreshWithSessionToken \/ RefreshWithRefreshToken

SpecOps == Init /\ [][NextOps]_vars

-----------------------------------------------------------------------------
(* Properties of the operations, checked under SpecOps *)

Returned == ret.state = "returned"

\* the payload of a failure is absent: None, or the empty list that the
\* list operations return with a failure
PayloadAbsent(p) ==
  \/ IsNone(p)
  \/ Get(p).t = "list" /\ Get(p).items = <<>>

\* the payload of a success is present: a value that is not None (a body
\* "null" decodes to None)
PayloadPresent(p) == ~IsNone(p) /\ Get(p).t # "null"

\* the error is a text that the classifier takes for an HTML document
HtmlError(e) ==
  ~IsNone(e) /\ Get(e).fmt = "text" /\ _looks_like_html(Get(e).text)

\* C11: whenever the upstream answers send_invite with status 409 the error
\* returned is the "already a member" message, and with status 422 the
\* "team full or invalid email" message, whatever the body.  Violated: a 422
\* or 409 whose "detail" is a list or an object makes _make_request retry and
\* end with status_code 0 (C3), and the message is not replaced.
C11_InviteStatusMessages ==
  (Returned /\ ret.op = "send_invite" /\ log.last.kind = "response")
  => /\ log.last.status_code = 409
          => ret.error = Some(TextErr(MSG_ALREADY_MEMBER))
     /\ log.last.status_code = 422
          => ret.error = Some(TextErr(MSG_TEAM_FULL))

\* C14: every dict returned by _make_request and by an operation has, with
\* success False, no payload, and with success True, no error, no error
\* code and a payload.  Violated: refresh_access_token_with_refresh_token
\* returns success True with the access_token of a body that has none, and
\* _make_request returns success True with data None for the body "null".
C14_EnvelopeShape ==
  /\ pc = "done"
       => /\ ~result.success => IsNone(result.data)
          /\ result.success
               => (IsNone(result.error) /\ PayloadPresent(result.data))
  /\ Returned
       => /\ ~ret.success => PayloadAbsent(ret.payload)
          /\ ret.success
               => /\ IsNone(ret.error) /\ ret.error_code = NoCode
                  /\ PayloadPresent(ret.payload)
  /\ gm.pc = "done"
       => /\ ~gm.result.success => gm.result.members = <<>>
          /\ gm.result.success => IsNone(gm.result.error)

\* C20: no failure returned by an operation or by _make_request has for
\* error a text that is an HTML document.  Violated: the refresh flows
\* return response.text as error without passing it to the classifier.
C20_NoHtmlInError ==
  /\ (Returned /\ ~ret.success) => ~HtmlError(ret.error)
  /\ (pc = "done" /\ ~result.success) => ~HtmlError(result.error)

-----------------------------------------------------------------------------
(* Further properties of the session state, checked under SpecSession *)

\* a logical call has passed its entry and has not sent a request yet
AtEntry == ev.op = "call" /\ pc = "loop" /\ log.iterations = 0

\* the cookies of the cache, as a dict
CachedCookies == IF IsNone(cf_cookies) THEN EmptyDict ELSE Get(cf_cookies)

\* C21: a logical call that finds a session stored keeps it and issues no
\* solver request at entry; one that finds none ensures clearance first (no
\* solver request when the cache is valid, one when it is not and the
\* solver is enabled with a URL) and stores a new session that carries
\* every cookie of the cache.
C21_SessionAcquisition ==
  AtEntry
  => /\ ev.had_session => (ev.session_kept /\ log.entry.reqs = 0)
     /\ ~ev.had_session
          => /\ ~IsNone(session)
             /\ Get(session).cookies = CachedCookies
             /\ ev.valid_before => log.entry.reqs = 0
             /\ (~ev.valid_before /\ log.entry.usable) => log.entry.reqs = 1
             /\ ~log.entry.usable => log.entry.reqs = 0

C21_Witness ==
  /\ AtEntry /\ ~ev.had_session /\ log.entry.reqs = 1
  /\ NonEmpty(CachedCookies) /\ Get(session).cookies = CachedCookies

\* C22: when the configuration read says disabled, or gives no URL,
\* _fetch_cf_cookies returns False without a request to the solver; so
\* _ensure_cf_cookies, the session creation at the entry of a call and
\* _try_cf_recovery issue no solver request, and _try_cf_recovery returns
\* False.
C22_DisabledSolverNoRequest ==
  /\ (ev.op \in {"fetch", "ensure", "recover"} /\ ev.solver = "not asked")
       => (ev.reqs = 0 /\ ~ev.ok /\ ~ev.raised)
  /\ (AtEntry /\ ~log.entry.usable)
       => (log.entry.reqs = 0 /\ log.solver_reqs = 0)

C22_Witness ==
  /\ ev.op = "recover" /\ ev.solver = "not asked" /\ ev.had_session
  /\ ~ev.ok /\ ev.reqs = 0 /\ ~ev.cache_kept

-----------------------------------------------------------------------------
(* Further properties of the operations, checked under SpecOps *)

\* C23: whenever the upstream answers delete_member with status 403 the
\* error returned is the "no permission" message, and with status 404 the
\* "user does not exist" message, whatever the body.  Violated: a 404 or 403
\* whose "detail" is a list or an object makes _make_request retry and end
\* with status_code 0 (C3), and so does a 403 challenge page answered on the
\* last attempt when recovery succeeds (C2): the message is not replaced.
C23_RemoveMemberStatusMessages ==
  (Returned /\ ret.op = "delete_member" /\ log.last.kind = "response")
  => /\ log.last.status_code = 403
          => ret.error = Some(TextErr(MSG_NO_PERMISSION))
     /\ log.last.status_code = 404
          => ret.error = Some(TextErr(MSG_NO_USER))

\* the refresh flows
RefreshOps == {"refresh_with_session_token", "refresh_with_refresh_token"}

\* C24: a refresh flow sends exactly one request, with no retry and no
\* challenge recovery, and returns a result instead of raising.  Violated:
\* the session creation of lines 758-759 and 832-833 is outside the try, so
\* when no session is stored and the configuration read raises, the flow
\* raises before any request is sent.
C24_RefreshSingleRequest ==
  (ret.op \in RefreshOps /\ ret.state \in {"returned", "raised"})
  => /\ ret.state = "returned"
     /\ log.dispatches = 1
     /\ log.recoveries = 0
     /\ log.sleeps = <<>>

-----------------------------------------------------------------------------
(* Properties of the success branch and of the headers, checked under Spec *)

\* the last iteration received a response with a 2xx status
Last2xx ==
  /\ InCall /\ log.iterations > 0 /\ log.last.kind = "response"
  /\ log.last.status_code >= 200 /\ log.last.status_code < 300

ExpectedHeaders(ua, hdrs) ==
  IF IsNone(ua) THEN hdrs ELSE DictSet(hdrs, "User-Agent", Get(ua))

\* C26: every attempt that is dispatched sends the caller's headers with the
\* User-Agent replaced by the user agent cached when the attempt starts, if
\* there is one, and the caller's headers as they are otherwise; the
\* caller's dict is the same after the attempt.  The user agent cached when
\* an attempt starts is the one the recovery of the attempt before stored.
C26_IdentityHeader ==
  [][(pc = "loop" /\ log'.iterations = log.iterations + 1)
       => /\ headers' = headers
          /\ ~IsNone(log'.sent)
               => Get(log'.sent) = ExpectedHeaders(cf_user_agent, headers)]_vars

\* an attempt that follows a successful recovery was sent with the user
\* agent of the solution, in place of the one the caller passed
C26_Witness ==
  /\ InCall /\ log.iterations >= 2 /\ cf_retried /\ log.last_recovery = "none"
  /\ log.entry.reqs = 0 /\ ~log.entry.cached
  /\ headers = AgentHeaders
  /\ log.sent = Some(DictSet(AgentHeaders, "User-Agent", "UA-A"))

-----------------------------------------------------------------------------
(* Properties of the admin route, checked under SpecAdmin *)

ValidUrl(url) == StartsWith(url, "http://") \/ StartsWith(url, "https://")

\* C27: a stored configuration that is enabled with a non-empty URL has a
\* URL that starts with http:// or https://; a request that the URL check
\* rejects (answer 400) leaves the stored configuration, the stored session
\* and the cookie cache as they were.
C27_StoredUrlChecked ==
  /\ (settings.enabled /\ Len(settings.url) > 0) => ValidUrl(settings.url)
  /\ (ev.op = "update_config" /\ ev.http = 400)
       => (ev.stored_kept /\ ev.session_kept /\ ev.cache_kept)

C27_Witness ==
  /\ ev.op = "update_config" /\ ev.http = 400
  /\ ~IsNone(session) /\ ~IsNone(cf_cookies)
  /\ settings = [enabled |-> TRUE, url |-> <<"https://", "solver:8191">>]

-----------------------------------------------------------------------------
(* Properties of get_account_info, checked under SpecOps *)

\* the members of an entry of the list that get_account_info returns
AccountFields ==
  {"account_id", "name", "plan_type", "subscription_plan", "expires_at",
   "has_active_subscription"}

\* the entry item of the returned list is made of the entry a of the map
MadeOf(item, a) ==
  /\ item.account_id = a.account_id
  /\ ~IsNone(a.account) /\ Get(a.account).plan_type = Some("team")
  /\ item.plan_type = "team"
  /\ item.name = IF IsNone(Get(a.account).name) THEN "" ELSE Get(Get(a.account).name)
  /\ IsNone(a.entitlement)
       => (item.subscription_plan = "" /\ item.expires_at = ""
           /\ item.has_active_subscription = FALSE)
  /\ ~IsNone(a.entitlement)
       => /\ Some(item.subscription_plan) = Get(a.entitlement).subscription_plan
             \/ (item.subscription_plan = ""
                 /\ IsNone(Get(a.entitlement).subscription_plan))
          /\ Some(item.expires_at) = Get(a.entitlement).expires_at
             \/ (item.expires_at = "" /\ IsNone(Get(a.entitlement).expires_at))
          /\ Some(item.has_active_subscription)
               = Get(a.entitlement).has_active_subscription
             \/ (~item.has_active_subscription
                 /\ IsNone(Get(a.entitlement).has_active_subscription))

\* C28: when the request of get_account_info succeeds with a body that holds
\* an account map, the operation returns success with exactly one entry for
\* every account of the map whose plan type is "team" and no other entry,
\* each entry with the six members read from that account; when the request
\* fails it returns success False with an empty list and the error of the
\* request.
C28_TeamAccountsOnly ==
  (ret.op = "get_account_info" /\ ret.state \in {"returned", "raised"}
     /\ pc = "done")
  => /\ ~result.success
          => /\ Returned /\ ~ret.success
             /\ Get(ret.payload).items = <<>>
             /\ ret.error = result.error /\ ret.error_code = result.error_code
     /\ (result.success /\ "accounts" \in DOMAIN Get(result.data))
          => /\ Returned /\ ret.success
             /\ LET items == Get(ret.payload).items
                    accounts == Get(result.data).accounts
                IN  /\ \A i \in DOMAIN items :
                         /\ DOMAIN items[i] = AccountFields
                         /\ \E j \in DOMAIN accounts : MadeOf(items[i], accounts[j])
                    /\ \A j \in DOMAIN accounts :
                         (~IsNone(accounts[j].account)
                            /\ Get(accounts[j].account).plan_type = Some("team"))
                         => Cardinality({i \in DOMAIN items :
                                          items[i].account_id
                                            = accounts[j].account_id}) = 1

C28_Witness ==
  /\ Returned /\ ret.op = "get_account_info" /\ ret.success
  /\ Len(SomeAccounts) = 5
  /\ Len(Get(ret.payload).items) = 2
  /\ Get(ret.payload).items[2].account_id = "acc-3"
  /\ Get(ret.payload).items[2].expires_at = ""

-----------------------------------------------------------------------------
(* Properties of the end of the retry loop, checked under Spec and SpecLive *)

\* C29: no logical call ends with the return that follows the loop (error
\* "unknown error", status_code 0): every call returns from inside the
\* loop.  Violated: a response whose status is below 200 or from 300 to 399
\* enters no branch of the loop body, so three of them leave the loop; and
\* so does a successful recovery on the last attempt (C2).
C29_ReturnsInsideLoop == pc = "done" => result # FallThrough

\* C30: every logical call that has entered its loop returns an envelope,
\* whatever the responses and the outcomes of the recoveries, as long as
\* every awaited call returns or raises.  (A call whose session creation
\* raises at entry has ended by raising before the loop, see C6.)
C30_CallTerminates == (pc = "loop") ~> (pc = "done")

\* a call that used every slot of its budget, one of them for a recovery,
\* has ended
C30_Witness ==
  /\ pc = "done" /\ log.iterations = MAX_RETRIES /\ log.recoveries >= 1
  /\ Len(log.sleeps) >= 1

-----------------------------------------------------------------------------
(* Properties of the request budget, checked under Spec *)

\* C31: a logical call dispatches at most MAX_RETRIES upstream requests,
\* the replay that follows a challenge recovery included, whatever the mix
\* of 5xx answers, timeouts, transport errors and challenge pages.
C31_DispatchBudget == log.dispatches <= MAX_RETRIES

\* a call that dispatched MAX_RETRIES requests, one of them the replay
\* after a successful recovery
C31_Witness ==
  /\ pc = "done" /\ log.dispatches = MAX_RETRIES /\ cf_retried
  /\ log.recoveries = 1 /\ Len(log.sleeps) = 1

-----------------------------------------------------------------------------
(* Properties of a successful fetch, checked under SpecSession *)

\* C36: right after _fetch_cf_cookies returned True the cache is valid,
\* whatever the solution; so _try_cf_recovery issues one solver request and
\* the session creation that follows a successful fetch issues none.
\* Violated: a solution with an empty cookie list stores an empty dict,
\* which "bool(self._cf_cookies)" takes for no cache; the session creation
\* inside _try_cf_recovery asks the solver a second time.
C36_FetchedCacheIsValid ==
  /\ (ev.op = "fetch" /\ ev.ok) => _cf_cookies_valid(Self, now)
  /\ (ev.op = "recover" /\ ev.ok) => ev.reqs = 1

-----------------------------------------------------------------------------
(* Properties of cookies and identity together, checked under Spec *)

\* the stored session carries the clearance cookie of the solution "A",
\* which the solver sent with the user agent "UA-A"
CarriesSolutionA ==
  /\ ~IsNone(session)
  /\ "cf_clearance" \in DOMAIN Get(session).cookies
  /\ Get(session).cookies["cf_clearance"] = "A"

\* C37: between logical calls, the clearance cookies of the stored session
\* and the user agent that overrides the header of the requests come from
\* the same solution of the solver.  Violated: a recovery whose fetch fails
\* clears the cached user agent and keeps the session, so the attempts of
\* the next calls send the cookies of the old solution without its user
\* agent.
C37_CookiesAndIdentityAgree ==
  (pc \in {"idle", "done", "raised"} /\ CarriesSolutionA)
  => cf_user_agent = Some("UA-A")

-----------------------------------------------------------------------------
(* Properties of the challenge failures of the operations, checked under   *)
(* SpecOps                                                                 *)

\* C38: a failure returned by an operation with the error code
\* "cloudflare_challenge" has the challenge message for error.  Violated:
\* delete_member replaces the error of every 403 and 404, and send_invite
\* the error of every 409 and 422, without a look at the error code, so a
\* challenge page with one of these statuses is reported as a permission or
\* membership error.
C38_ChallengeKeepsMessage ==
  (Returned /\ ~ret.success /\ ret.error_code = "cloudflare_challenge")
  => ret.error = Some(TextErr(MSG_CF_BLOCKED))

-----------------------------------------------------------------------------
(* Properties of a failing page of get_members, checked under SpecMembers  *)

\* C39: when _make_request returns a failure for a page, get_members ends
\* at that page: the page is the last one requested, and the result has
\* success False, no members, total 0 and the error and error code of that
\* page, whatever the pages before it brought.
C39_FailedPageEndsListing ==
  /\ (gm.pc = "done" /\ ~gm.result.success)
       => /\ pc = "done" /\ ~result.success
          /\ gm.result.members = <<>>
          /\ gm.result.total = 0
          /\ gm.result.error = result.error
          /\ gm.result.error_code = result.error_code
          /\ gm.requests[Len(gm.requests)] = gm.offset
  /\ (gm.pc = "done" /\ pc = "done" /\ ~result.success) => ~gm.result.success

\* the third page failed after two pages had brought members
C39_Witness ==
  /\ gm.pc = "done" /\ ~gm.result.success
  /\ Len(gm.all_members) = 2 * PAGE_LIMIT /\ gm.requests = <<0, 50, 100>>
  /\ gm.result.members = <<>> /\ ~IsNone(gm.result.error)

-----------------------------------------------------------------------------
(* utils/pricing.py: calculate_price_cents, and its specification           *)

\* the price with the quotient truncated instead of rounded
calculate_price_cents_Truncates(remaining_days, base_days, base_price_cents) ==
  IF IsNone(remaining_days) THEN None
  ELSE IF Get(remaining_days) <= 0 THEN Some(0)
  ELSE Some((Get(remaining_days) * base_price_cents) \div base_days)

\* lines 32-49; int() of an int is the int itself, // is the floor division
calculate_price_cents(remaining_days, base_days, base_price_cents) ==
  IF IsNone(remaining_days) THEN None
  ELSE IF Get(remaining_days) <= 0 THEN Some(0)
  ELSE LET numerator == Get(remaining_days) * base_price_cents
       IN  Some((2 * numerator + base_days) \div (2 * base_days))

\* arguments: no days, days from before the expiry to MaxDays after; the
\* default base and other positive bases; the default price and others
RemainingDays == {None} \cup {Some(d) : d \in -2 .. MaxDays}
BaseDays == {1, 2, 3, 7, DEFAULT_BASE_DAYS}
BasePrices == {0, 1, 5, 100, DEFAULT_BASE_PRICE_CENTS}

Quote ==
  /\ \E d \in RemainingDays, bd \in BaseDays, bp \in BasePrices :
       price' = [remaining_days |-> d, base_days |-> bd, base_price_cents |-> bp,
                 cents |-> calculate_price_cents(d, bd, bp), called |-> TRUE]
  /\ UNCHANGED <<svcVars, callVars, now, ticks, gm, ret, ev, settings, conc>>

NextPrice == Quote

SpecPrice == Init /\ [][NextPrice]_vars

\* C40: calculate_price_cents returns None for no days, 0 for days <= 0,
\* and otherwise the integer nearest to remaining_days * base_price_cents /
\* base_days, a half rounded up; with the default base the price is 50
\* times the days; and the price does not decrease when the days grow.
C40_PriceRoundedHalfUp ==
  price.called
  => LET d == price.remaining_days
         bd == price.base_days
         bp == price.base_price_cents
     IN  /\ IsNone(d) => IsNone(price.cents)
         /\ (~IsNone(d) /\ Get(d) <= 0) => price.cents = Some(0)
         /\ (~IsNone(d) /\ Get(d) > 0)
              => /\ ~IsNone(price.cents)
                 /\ 2 * bd * Get(price.cents) - bd <= 2 * Get(d) * bp
                 /\ 2 * Get(d) * bp < 2 * bd * Get(price.cents) + bd
         /\ (~IsNone(d) /\ Get(d) >= 0 /\ bd = DEFAULT_BASE_DAYS
                /\ bp = DEFAULT_BASE_PRICE_CENTS)
              => price.cents = Some(50 * Get(d))
         /\ ~IsNone(d)
              => \A e \in -2 .. Get(d) :
                   Get(calculate_price_cents(Some(e), bd, bp)) <= Get(price.cents)

\* 3 days at 5 cents for 2 days: 7.5 cents, rounded up to 8
C40_Witness ==
  /\ price.called /\ price.remaining_days = Some(3) /\ price.base_days = 2
  /\ price.base_price_cents = 5 /\ price.cents = Some(8)

-----------------------------------------------------------------------------
(* Tasks on one event loop.  A step runs from one await of the code to the   *)
(* next; the awaits are the configuration read (line 95), the solver post    *)
(* (103), the close of a session (166, 871), the upstream request (242-246), *)
(* the backoff sleep and the save of the configuration (admin.py 1357).  The *)
(* solver is enabled under every configuration, and a solution carries the   *)
(* number of the configuration it was obtained under as cookie value and as  *)
(* user agent.                                                               *)

\* _create_session, lines 188-201, once _ensure_cf_cookies has returned, and
\* the assignment to self.session by the caller
StoreNewSession(S) ==
  [S EXCEPT !.session = Some([id |-> conc.made + 1,
                              cookies |-> NewSession(S).cookies])]

Created == [conc EXCEPT !.made = @ + 1, !.open = @ \cup {conc.made + 1}]

\* lines 117-121 for the solution obtained under configuration g
StoreSolution(S, g) ==
  [S EXCEPT !.cf_cookies = Some([nm \in {"cf_clearance"} |-> g]),
            !.cf_user_agent = Some(g),
            !.cf_cookies_time = now]

\* lines 156-158 and 877-879
ClearCache(S) ==
  [S EXCEPT !.cf_cookies = None, !.cf_user_agent = None, !.cf_cookies_time = 0]

\* "cf_retried = True; continue"
Continue(T) ==
  [T EXCEPT !.cf_retried = TRUE, !.attempt = @ + 1, !.closing = 0,
            !.pc = IF T.attempt + 1 < MAX_RETRIES THEN "loop" ELSE "done"]

\* lines 407-423 and the 5xx branch: sleep and retry, or return on the last
\* attempt
Backoff(T) ==
  [T EXCEPT !.on = 0, !.cookie = None, !.agent = None,
            !.pc = IF T.attempt < MAX_RETRIES - 1 THEN "sleep" ELSE "done"]

Ended(T) == [T EXCEPT !.on = 0, !.cookie = None, !.agent = None, !.pc = "done"]

CookieTag(s) ==
  IF "cf_clearance" \in DOMAIN s.cookies THEN Some(s.cookies["cf_clearance"])
  ELSE None

ConcUnchanged ==
  UNCHANGED <<callVars, now, ticks, gm, ret, ev, settings, price>>

\* lines 224-226: the entry check, and _create_session up to its first await
CallStart(i) ==
  /\ conc.task[i].pc = "idle"
  /\ IF ~IsNone(session)
     THEN /\ conc' = [conc EXCEPT !.task[i].pc = "loop"]
          /\ UNCHANGED svcVars
     ELSE IF _cf_cookies_valid(Self, now)
     THEN /\ conc.made < MaxSessions
          /\ SetSvc(StoreNewSession(Self))
          /\ conc' = [Created EXCEPT !.task[i].pc = "loop"]
     ELSE /\ conc' = [conc EXCEPT !.task[i].pc = "cfg",
                                   !.task[i].cont = "entry"]
          /\ UNCHANGED svcVars
  /\ ConcUnchanged

\* line 95 returns: the configuration now stored is the one the fetch uses
ReadConfig(i) ==
  /\ conc.task[i].pc = "cfg"
  /\ conc' = [conc EXCEPT !.task[i].pc = "solve", !.task[i].cfg = conc.gen]
  /\ UNCHANGED svcVars
  /\ ConcUnchanged

\* line 103 returns, and the caller of _fetch_cf_cookies runs to its next
\* await: _create_session at the entry (cont "entry") or in the recovery
\* (cont "recreate"), or _try_cf_recovery at line 161 (cont "recovery")
SolverAnswers(i) ==
  /\ conc.task[i].pc = "solve"
  /\ \E ok \in BOOLEAN :
     \E S \in {IF ok THEN StoreSolution(Self, conc.task[i].cfg) ELSE Self} :
     \E T \in {conc.task[i]} :
       IF T.cont = "entry"
       THEN /\ conc.made < MaxSessions
            /\ SetSvc(StoreNewSession(S))
            /\ conc' = [Created EXCEPT !.task[i].pc = "loop"]
       ELSE IF T.cont = "recreate"
       THEN /\ conc.made < MaxSessions
            /\ SetSvc(StoreNewSession(S))
            /\ conc' = [Created EXCEPT !.task[i] = Continue(T)]
       ELSE IF ~ok
       THEN /\ SetSvc(S)
            /\ conc' = [conc EXCEPT !.task[i] = Ended(T)]
       ELSE IF ~IsNone(S.session)
       THEN /\ SetSvc(S)
            /\ conc' = [conc EXCEPT !.task[i].pc = "closing",
                                    !.task[i].closing = Get(S.session).id]
       ELSE /\ conc.made < MaxSessions
            /\ SetSvc(StoreNewSession(S))
            /\ conc' = [Created EXCEPT !.task[i] = Continue(T)]
  /\ ConcUnchanged

\* line 166 returns: the session is closed, line 169 drops whatever is
\* stored, and line 170 creates the next session
RecoveryClosed(i) ==
  /\ conc.task[i].pc = "closing"
  /\ \E S \in {[Self EXCEPT !.session = None]} :
     \E T \in {conc.task[i]} :
       IF _cf_cookies_valid(S, now)
       THEN /\ conc.made < MaxSessions
            /\ SetSvc(StoreNewSession(S))
            /\ conc' = [Created EXCEPT !.open = @ \ {T.closing},
                                       !.task[i] = Continue(T)]
       ELSE /\ SetSvc(S)
            /\ conc' = [conc EXCEPT !.open = @ \ {T.closing},
                                    !.task[i].pc = "cfg",
                                    !.task[i].cont = "recreate",
                                    !.task[i].closing = 0]
  /\ ConcUnchanged

\* lines 230-246: one attempt.  self.session.get on None raises
\* AttributeError, which line 407 catches.
Dispatch(i) ==
  /\ conc.task[i].pc = "loop"
  /\ IF IsNone(session)
     THEN conc' = [conc EXCEPT !.absent = TRUE,
                              !.task[i] = Backoff(conc.task[i])]
     ELSE conc' = [conc EXCEPT !.task[i].pc = "inflight",
                              !.task[i].on = Get(session).id,
                              !.task[i].cookie = CookieTag(Get(session)),
                              !.task[i].agent = cf_user_agent,
                              !.task[i].after = conc.returned]
  /\ UNCHANGED svcVars
  /\ ConcUnchanged

\* the request returns or raises: a JSON answer, a challenge page (lines
\* 324-328, 366-370: the cache is cleared and the fetch awaits the
\* configuration), or an answer that is retried
Response(i) ==
  /\ conc.task[i].pc = "inflight"
  /\ \E out \in {"json", "challenge", "retry"} :
     \E T \in {conc.task[i]} :
       IF out = "challenge" /\ ~T.cf_retried
       THEN /\ SetSvc(ClearCache(Self))
            /\ conc' = [conc EXCEPT !.task[i] =
                          [T EXCEPT !.on = 0, !.cookie = None, !.agent = None,
                                    !.pc = "cfg", !.cont = "recovery"]]
       ELSE /\ UNCHANGED svcVars
            /\ conc' = [conc EXCEPT !.task[i] =
                          IF out = "retry" THEN Backoff(T) ELSE Ended(T)]
  /\ ConcUnchanged

\* asyncio.sleep returns: "continue"
Wake(i) ==
  /\ conc.task[i].pc = "sleep"
  /\ conc' = [conc EXCEPT !.task[i].pc = "loop", !.task[i].attempt = @ + 1]
  /\ UNCHANGED svcVars
  /\ ConcUnchanged

\* admin.py 1345-1357: a valid form is posted and the save is awaited
AdminUpdate ==
  /\ conc.admin.pc = "idle"
  /\ conc.updates < MaxUpdates
  /\ conc' = [conc EXCEPT !.admin.pc = "saving", !.updates = @ + 1]
  /\ UNCHANGED svcVars
  /\ ConcUnchanged

\* the save returns True: clear_session clears the cache, and close() awaits
\* the close of a stored session (chatgpt.py 870-871) or returns
AdminSaved ==
  /\ conc.admin.pc = "saving"
  /\ SetSvc(ClearCache(Self))
  /\ IF IsNone(session)
     THEN conc' = [conc EXCEPT !.gen = @ + 1, !.returned = conc.gen + 1,
                              !.admin.pc = "idle"]
     ELSE conc' = [conc EXCEPT !.gen = @ + 1, !.admin.pc = "closing",
                              !.admin.closing = Get(session).id]
  /\ ConcUnchanged

\* line 871 returns and line 872 drops whatever is stored; the route returns
\* success
AdminClosed ==
  /\ conc.admin.pc = "closing"
  /\ SetSvc([Self EXCEPT !.session = None])
  /\ conc' = [conc EXCEPT !.open = @ \ {conc.admin.closing},
                          !.returned = conc.gen,
                          !.admin.pc = "idle", !.admin.closing = 0]
  /\ ConcUnchanged

NextConc ==
  \/ \E i \in Callers :
       \/ CallStart(i)
       \/ ReadConfig(i)
       \/ SolverAnswers(i)
       \/ RecoveryClosed(i)
       \/ Dispatch(i)
       \/ Response(i)
       \/ Wake(i)
  \/ AdminUpdate
  \/ AdminSaved
  \/ AdminClosed

SpecConc == Init /\ [][NextConc]_vars

\* C32: every attempt of a logical call is dispatched on an existing
\* session, whatever the other tasks do between the entry check and the
\* attempt.
C32_AttemptOnSession == ~conc.absent

\* C33: every session created is the stored one or has been closed.
C33_OneOpenSession ==
  \A id \in conc.open : ~IsNone(session) /\ Get(session).id = id

\* C34: no session is closed while a request of a logical call is in flight
\* on it.
C34_NoCloseUnderRequest ==
  \A i \in Callers : conc.task[i].pc = "inflight" => conc.task[i].on \in conc.open

\* C35: an attempt dispatched after update_flaresolverr_config returned
\* success carries no cookie and no user agent of a solution obtained under
\* an earlier configuration.
C35_NoStaleSolution ==
  \A i \in Callers :
    conc.task[i].pc = "inflight"
    => /\ IsNone(conc.task[i].cookie) \/ Get(conc.task[i].cookie) >= conc.task[i].after
       /\ IsNone(conc.task[i].agent) \/ Get(conc.task[i].agent) >= conc.task[i].after

====
